---- MODULE Spec2Model ----
(***************************************************************************)
(* Shelly scripts of the repository.  The main part is the load-shedding   *)
(* controller for a multi-channel Shelly switch (the "loadshed" script);   *)
(* the underpower-off script and the one-shot-timer notification demo      *)
(* follow, each with its own variable and specification.  The loadshed     *)
(* script is modelled as a state machine of its callbacks:                 *)
(*   - the bootstrap (getDeviceConfigThenInit / _callbackGetConfig / init) *)
(*   - the status handler (updateStatus and everything it calls)           *)
(*   - the shared periodic timer (_logWrite, which piggybacks _notifyWrite)*)
(* Currents are in tenths of an ampere (CONFIG.currentMax: 15 A = 150).    *)
(* JavaScript `undefined` and NaN are the two sentinels below; every       *)
(* comparison with NaN is false, as in the script's engine.                *)
(***************************************************************************)
EXTENDS Integers, Sequences, FiniteSets, TLC

VARIABLES
  switchPriority,            \* CONFIG.switchPriority (immutable after start)
  logEnabled,                \* CONFIG.log
  notifyInterval,            \* _notifyQueue.interval, in seconds
  loadState,                 \* loadState: [current, output], arrays indexed by switch id
  interlockNotificationPosted, \* _interlockNotificationPosted
  lastNotificationMessage,   \* _lastNotificationMessage
  notifyQueue,               \* _notifyQueue.queue
  lastNotificationTime,      \* _lastNotificationTime
  notificationIntervalCount, \* _notificationIntervalCount
  currentTime,               \* currentTime (uptime as last read by _notifyWrite)
  logQueue,                  \* _logQueue.queue
  gotDeviceConfig,           \* _gotDeviceConfig
  host,                      \* the execution host: timers, pending calls, handler, clock
  obs,                       \* what the last callback did (commands, posts, ...)
  hist,                      \* history: events handled, previous interlock evaluation
  underpower,                \* the underpower-off script: its globals, host and history
  demo,                      \* the notification demo: its globals, host and history
  poll,                      \* the poll loop snippet: its globals, host and history
  health                     \* the health check: its state file and last run

vars == <<switchPriority, logEnabled, notifyInterval, loadState, interlockNotificationPosted,
          lastNotificationMessage, notifyQueue, lastNotificationTime,
          notificationIntervalCount, currentTime, logQueue, gotDeviceConfig,
          host, obs, hist, underpower, demo, poll, health>>

-----------------------------------------------------------------------------
(* Bounds of the model *)

\* number of status notifications delivered to the handler in one behaviour
MaxEvents == 3
\* the same, and the uptime followed, in the behaviours of SpecQueue
MaxQueueEvents == 5
MaxQueueUptime == 3
\* number of status notifications delivered in the behaviours of SpecLive
MaxLiveEvents == 2
\* the same, and the uptime followed, in the behaviours of SpecCalls
MaxCallEvents == 3
MaxCallUptime == 2
\* number of status notifications delivered in the behaviours of SpecBoot
MaxBootEvents == 2
\* number of status notifications delivered to the underpower-off script, and
\* the uptime followed, in the behaviours of SpecUnderpower
MaxUnderpowerEvents == 3
MaxUnderpowerUptime == 2
\* the notification demo: _notifyQueue.interval in seconds (the script: 10),
\* the status notifications delivered and the uptime followed
DemoInterval == 2
MaxDemoEvents == 3
MaxDemoUptime == 6
\* the host's uptime (whole seconds) is followed up to this value
MaxUptime == 1
\* timer ticks per second of uptime (the script: 1000 / _logQueue.interval = 10)
TicksPerSecond == 1
\* _notifyQueue.interval in seconds (the script: 20)
NotifyInterval == 1
PaceInterval == 3          \* the notification interval of SpecPace, in seconds
MaxPaceEvents == 3         \* status notifications delivered in SpecPace
MaxPaceUptime == 8         \* seconds of uptime followed in SpecPace
MaxQuietEvents == 4        \* status notifications delivered in SpecQuiet
MaxQuietUptime == 4        \* seconds of uptime followed in SpecQuiet
MaxPollClock == 200        \* milliseconds followed in SpecPoll
MaxHealthRuns == 8         \* runs of the health check
MaxHealthUptime == 2       \* uptimes the device reports to the health check

-----------------------------------------------------------------------------
(* Program constants *)

currentMax == 150          \* CONFIG.currentMax (15 A)
notifyMaxSize == 5         \* _notifyQueue.maxSize
logMaxSize == 10           \* _logQueue.maxSize
NoiseFloor == 1            \* the 0.1 A literal of _updateLoadStatePower

undefined == -1            \* JavaScript undefined (a hole of an array, an absent field)
NaN == -2                  \* JavaScript NaN

\* switch ids of the modelled device (a Pro4PM has 0 .. 3)
SwitchIds == 0 .. 2

\* currents a switch can report (tenths of an ampere)
Currents == {0, 40, 110, 160}
\* the currents of the long behaviours of Spec
FewCurrents == {40, 160}
\* output values of the store: undefined before the first observation
Outputs == {"true", "false"}

\* priority orders the script is configured with: every switch of the device
\* (primary 2, then 0, then 1), and an order that omits switch 1
PriorityOrders == { <<2, 0, 1>>, <<0, 2>> }

-----------------------------------------------------------------------------
(* JavaScript helpers *)

Max(S) == CHOOSE x \in S : \A y \in S : y <= x

\* length of a JavaScript array kept as a function over the switch ids:
\* one past the highest index ever assigned
ArrayLength(a, undef) ==
  LET def == {i \in DOMAIN a : a[i] # undef}
  IN IF def = {} THEN 0 ELSE Max(def) + 1

\* a + b of the engine; undefined in a sum gives NaN
JsAdd(a, b) == IF a \in {NaN, undefined} \/ b \in {NaN, undefined} THEN NaN ELSE a + b
JsSub(a, b) == IF a \in {NaN, undefined} \/ b \in {NaN, undefined} THEN NaN ELSE a - b
\* a < b and a > b of the engine; false when either side is NaN
JsLt(a, b) == a # NaN /\ b # NaN /\ a < b
JsGt(a, b) == a # NaN /\ b # NaN /\ a > b

\* truthiness of a stored output
Truthy(o) == o = "true"

\* _notnullish, for a numeric field and for an output field of a notification
\* (an absent or null field reads as undefined through _get)
notnullish(v) == v # undefined
notnullishOutput(o) == o # "undefined"

-----------------------------------------------------------------------------
(* Messages and notifications *)

\* The text of a notification: its fixed wording (kind) and the joined list
\* "<switch name> (<current>A)"; a switch name is a function of the switch id.
Message(kind, names) == [kind |-> kind, names |-> names]
NoMessage == Message("undefined", <<>>)

\* the fixed wordings of the script's notifications
StartText == "script start"
InterlockOnText == "Multiple secondary devices are on:"
InterlockClearedText == "Multiple secondary devices cleared; on:"
ShedText == "Shedding load: turned off switch(es)"

\* a status notification as the handler reads it: name, id, delta.aenergy,
\* delta.output, delta.current ("undefined"/undefined: the field is absent)
NotificationsOf(currents) ==
  [name : {"switch"}, id : SwitchIds, aenergy : {FALSE},
   output : Outputs \cup {"undefined"}, current : currents \cup {undefined}]
  \cup [name : {"switch"}, id : {0}, aenergy : {TRUE},
        output : {"undefined"}, current : {undefined}]
  \cup [name : {"input"}, id : {0}, aenergy : {FALSE},
        output : {"undefined"}, current : {undefined}]

\* what one callback did, for the properties below
Blank(op) ==
  [op |-> op,
   cmds |-> <<>>,          \* Shelly.call('Switch.Set', {id, on}) in call order
   hitlist |-> <<>>,       \* hitlist of _shedLoad
   total |-> undefined,    \* totalCurrent as computed by _sumCurrents
   projected |-> undefined,\* totalCurrent at the end of _shedLoad
   shedRan |-> FALSE,      \* _shedLoad was called
   switchesOn |-> <<>>,    \* switchesOn of _checkInterlock
   notified |-> <<>>,      \* messages passed to _notify
   enq |-> <<>>,           \* messages pushed onto _notifyQueue.queue
   evicted |-> <<>>,       \* messages dropped from the head by overflow
   posted |-> <<>>,        \* messages handed to postNotification
   printed |-> <<>>,       \* log entries written by _logWrite
   lost |-> 0,             \* log entries refused by a full log queue
   warn |-> FALSE,         \* the 'output is off yet current=' diagnostic was raised
   completed |-> 0,        \* calls of this callback whose completion has run
   console |-> <<>>]       \* lines _callbackLogError wrote to the console

\* the mutable globals of the script, threaded through the helpers
Globals ==
  [loadState |-> loadState,
   interlockNotificationPosted |-> interlockNotificationPosted,
   lastNotificationMessage |-> lastNotificationMessage,
   notifyQueue |-> notifyQueue,
   lastNotificationTime |-> lastNotificationTime,
   notificationIntervalCount |-> notificationIntervalCount,
   currentTime |-> currentTime,
   logQueue |-> logQueue,
   obs |-> obs]

Commit(g) ==
  /\ loadState' = g.loadState
  /\ interlockNotificationPosted' = g.interlockNotificationPosted
  /\ lastNotificationMessage' = g.lastNotificationMessage
  /\ notifyQueue' = g.notifyQueue
  /\ lastNotificationTime' = g.lastNotificationTime
  /\ notificationIntervalCount' = g.notificationIntervalCount
  /\ currentTime' = g.currentTime
  /\ logQueue' = g.logQueue
  /\ obs' = g.obs

Obs(g, field, value) == [g EXCEPT !.obs = [g.obs EXCEPT ![field] = value]]

-----------------------------------------------------------------------------
(* Logging and the notification queue *)

\* faulty variant of log: a full queue makes room by dropping its oldest entry
logDropOldest(g, entry) ==
  IF ~logEnabled THEN g
  ELSE IF Len(g.logQueue) < logMaxSize
       THEN [g EXCEPT !.logQueue = Append(@, entry)]
       ELSE [g EXCEPT !.logQueue = Append(Tail(@), entry)]

\* _log: append to the log queue unless logging is off or the queue is full
log(g, entry) ==
  IF ~logEnabled THEN g
  ELSE IF Len(g.logQueue) < logMaxSize
       THEN [g EXCEPT !.logQueue = Append(@, entry)]
       ELSE Obs(g, "lost", g.obs.lost + 1)

\* postNotification: log, then the fire-and-forget HTTP.Request
postNotification(g, message) ==
  Obs(log(g, "postNotification"), "posted", Append(g.obs.posted, message))

Min2(a, b) == IF a < b THEN a ELSE b
Max2(a, b) == IF a > b THEN a ELSE b

\* faulty variant of notifyWrite: an unforced call already sends when exactly
\* the interval has passed (remaining <= 0)
notifyWriteAtInterval(g, byTimer, uptime) ==
  LET remaining == notifyInterval - (uptime - g.lastNotificationTime)
      g1 == [g EXCEPT !.currentTime = uptime]
      send == (byTimer \/ remaining <= 0) /\ Len(g.notifyQueue) > 0
      g2 == IF send
            THEN [postNotification(g1, Head(g1.notifyQueue)) EXCEPT
                    !.notifyQueue = Tail(g1.notifyQueue),
                    !.lastNotificationTime = uptime]
            ELSE g1
      remaining2 == IF send THEN notifyInterval ELSE remaining
      interval == Max2(0, Min2(remaining2, notifyInterval))
  IN [g2 EXCEPT !.notificationIntervalCount = interval * TicksPerSecond]

\* faulty variant of notifyWrite: after a send the countdown is computed from
\* the time that remained before it
notifyWriteStaleRemaining(g, byTimer, uptime) ==
  LET remaining == notifyInterval - (uptime - g.lastNotificationTime)
      g1 == [g EXCEPT !.currentTime = uptime]
      send == (byTimer \/ remaining < 0) /\ Len(g.notifyQueue) > 0
      g2 == IF send
            THEN [postNotification(g1, Head(g1.notifyQueue)) EXCEPT
                    !.notifyQueue = Tail(g1.notifyQueue),
                    !.lastNotificationTime = uptime]
            ELSE g1
      interval == Max2(0, Min2(remaining, notifyInterval))
  IN [g2 EXCEPT !.notificationIntervalCount = interval * TicksPerSecond]

\* faulty variant of notifyWrite: the newest queued message is sent (pop
\* instead of splice(0, 1))
notifyWritePostNewest(g, byTimer, uptime) ==
  LET remaining == notifyInterval - (uptime - g.lastNotificationTime)
      g1 == [g EXCEPT !.currentTime = uptime]
      send == (byTimer \/ remaining < 0) /\ Len(g.notifyQueue) > 0
      g2 == IF send
            THEN [postNotification(g1, g1.notifyQueue[Len(g1.notifyQueue)]) EXCEPT
                    !.notifyQueue = SubSeq(g1.notifyQueue, 1, Len(g1.notifyQueue) - 1),
                    !.lastNotificationTime = uptime]
            ELSE g1
      remaining2 == IF send THEN notifyInterval ELSE remaining
      interval == Max2(0, Min2(remaining2, notifyInterval))
  IN [g2 EXCEPT !.notificationIntervalCount = interval * TicksPerSecond]

\* _notifyWrite(byTimer), with the uptime the host reports
notifyWrite(g, byTimer, uptime) ==
  LET remaining == notifyInterval - (uptime - g.lastNotificationTime)
      g1 == [g EXCEPT !.currentTime = uptime]
      send == (byTimer \/ remaining < 0) /\ Len(g.notifyQueue) > 0
      g2 == IF send
            THEN [postNotification(g1, Head(g1.notifyQueue)) EXCEPT
                    !.notifyQueue = Tail(g1.notifyQueue),
                    !.lastNotificationTime = uptime]
            ELSE g1
      remaining2 == IF send THEN notifyInterval ELSE remaining
      interval == Max2(0, Min2(remaining2, notifyInterval))
  IN [g2 EXCEPT !.notificationIntervalCount = interval * TicksPerSecond]

\* faulty variant of notify: a full queue refuses the new message (as _log
\* does) instead of dropping its oldest one
notifyDropNewest(g, message, uptime) ==
  LET g0 == Obs(g, "notified", Append(g.obs.notified, message))
  IN IF message = g0.lastNotificationMessage THEN g0
     ELSE LET g1 == [g0 EXCEPT !.lastNotificationMessage = message]
              full == Len(g1.notifyQueue) >= notifyMaxSize
              g3 == IF full
                    THEN Obs(log(g1, "_notify overflow"),
                             "evicted", Append(g1.obs.evicted, message))
                    ELSE Obs([g1 EXCEPT !.notifyQueue = Append(@, message)],
                             "enq", Append(g1.obs.enq, message))
          IN notifyWrite(g3, FALSE, uptime)

\* faulty variant of notify: a duplicate is looked for at the tail of the
\* queue instead of in _lastNotificationMessage
notifyPeekQueue(g, message, uptime) ==
  LET g0 == Obs(g, "notified", Append(g.obs.notified, message))
  IN IF Len(g0.notifyQueue) > 0 /\ message = g0.notifyQueue[Len(g0.notifyQueue)] THEN g0
     ELSE LET g1 == [g0 EXCEPT !.lastNotificationMessage = message]
              full == Len(g1.notifyQueue) >= notifyMaxSize
              g2 == IF full
                    THEN Obs(log([g1 EXCEPT !.notifyQueue = Tail(@)], "_notify overflow"),
                             "evicted", Append(g1.obs.evicted, Head(g1.notifyQueue)))
                    ELSE g1
              g3 == Obs([g2 EXCEPT !.notifyQueue = Append(@, message)],
                        "enq", Append(g2.obs.enq, message))
          IN notifyWrite(g3, FALSE, uptime)

\* _notify(message)
notify(g, message, uptime) ==
  LET g0 == Obs(g, "notified", Append(g.obs.notified, message))
  IN IF message = g0.lastNotificationMessage THEN g0
     ELSE LET g1 == [g0 EXCEPT !.lastNotificationMessage = message]
              full == Len(g1.notifyQueue) >= notifyMaxSize
              g2 == IF full
                    THEN Obs(log([g1 EXCEPT !.notifyQueue = Tail(@)], "_notify overflow"),
                             "evicted", Append(g1.obs.evicted, Head(g1.notifyQueue)))
                    ELSE g1
              g3 == Obs([g2 EXCEPT !.notifyQueue = Append(@, message)],
                        "enq", Append(g2.obs.enq, message))
          IN notifyWrite(g3, FALSE, uptime)

\* faulty variant of logWrite: the countdown is decremented before it is
\* tested (--count instead of count--)
logWritePreDecrement(g, uptime) ==
  LET g1 == IF Len(g.logQueue) > 0
            THEN Obs([g EXCEPT !.logQueue = Tail(@)],
                     "printed", Append(g.obs.printed, Head(g.logQueue)))
            ELSE g
      due == g.notificationIntervalCount - 1 <= 0
      g2 == [g1 EXCEPT !.notificationIntervalCount = @ - 1]
  IN IF due /\ Len(g2.notifyQueue) > 0 THEN notifyWrite(g2, TRUE, uptime) ELSE g2

\* faulty variant of logWrite: the countdown is never decremented
logWriteNoCountdown(g, uptime) ==
  LET g1 == IF Len(g.logQueue) > 0
            THEN Obs([g EXCEPT !.logQueue = Tail(@)],
                     "printed", Append(g.obs.printed, Head(g.logQueue)))
            ELSE g
      due == g.notificationIntervalCount <= 0
  IN IF due /\ Len(g1.notifyQueue) > 0 THEN notifyWrite(g1, TRUE, uptime) ELSE g1

\* faulty variant of logWrite: the countdown is ignored, a waiting
\* notification is sent on every tick
logWriteEveryTick(g, uptime) ==
  LET g1 == IF Len(g.logQueue) > 0
            THEN Obs([g EXCEPT !.logQueue = Tail(@)],
                     "printed", Append(g.obs.printed, Head(g.logQueue)))
            ELSE g
      g2 == [g1 EXCEPT !.notificationIntervalCount = @ - 1]
  IN IF Len(g2.notifyQueue) > 0 THEN notifyWrite(g2, TRUE, uptime) ELSE g2

\* _logWrite: the periodic timer callback
logWrite(g, uptime) ==
  LET g1 == IF Len(g.logQueue) > 0
            THEN Obs([g EXCEPT !.logQueue = Tail(@)],
                     "printed", Append(g.obs.printed, Head(g.logQueue)))
            ELSE g
      due == g.notificationIntervalCount <= 0
      g2 == [g1 EXCEPT !.notificationIntervalCount = @ - 1]
  IN IF due /\ Len(g2.notifyQueue) > 0 THEN notifyWrite(g2, TRUE, uptime) ELSE g2

-----------------------------------------------------------------------------
(* The store: loadState *)

EmptyLoadState ==
  [current |-> [i \in SwitchIds |-> undefined],
   output |-> [i \in SwitchIds |-> "undefined"]]

\* what Shelly.getComponentStatus('Switch', id) can return for every switch
StatusesOf(currents) == [SwitchIds -> [current : currents, output : Outputs]]

\* _getloadState: fill the store for the switches of switchPriority, in
\* priority order, from the status the device reports
RECURSIVE getloadStateFrom(_, _, _)
getloadStateFrom(g, status, i) ==
  IF i > Len(switchPriority) THEN g
  ELSE LET switchId == switchPriority[i]
           g1 == log(g, "_getloadState")
       IN getloadStateFrom(
            [g1 EXCEPT !.loadState.current[switchId] = status[switchId].current,
                       !.loadState.output[switchId] = status[switchId].output],
            status, i + 1)

\* faulty variant of getloadState: the loop starts after the primary
getloadStateSkipPrimary(g, status) == getloadStateFrom(g, status, 2)

getloadState(g, status) == getloadStateFrom(g, status, 1)

\* faulty variant of updateLoadStatePower: the reported current is added to
\* the stored one instead of replacing it
updateLoadStatePowerAdding(g, notifyStatus) ==
  LET switchId == notifyStatus.id
      current == notifyStatus.current
  IN IF notnullish(current)
     THEN LET old == g.loadState.current[switchId]
              g1 == [g EXCEPT !.loadState.current[switchId] =
                                 IF old = undefined THEN current ELSE old + current]
          IN IF current > NoiseFloor /\ ~Truthy(g1.loadState.output[switchId])
             THEN Obs(log(g1, "WARN output is off yet current"), "warn", TRUE)
             ELSE g1
     ELSE g

\* faulty variant of updateLoadStatePower: a current above the noise floor
\* on a channel that is not on is taken as proof that the channel is on
updateLoadStatePowerResync(g, notifyStatus) ==
  LET switchId == notifyStatus.id
      current == notifyStatus.current
  IN IF notnullish(current)
     THEN LET g1 == [g EXCEPT !.loadState.current[switchId] = current]
          IN IF current > NoiseFloor /\ ~Truthy(g1.loadState.output[switchId])
             THEN LET g2 == Obs(log(g1, "WARN output is off yet current"), "warn", TRUE)
                  IN [g2 EXCEPT !.loadState.output[switchId] = "true"]
             ELSE g1
     ELSE g

\* _updateLoadStatePower
updateLoadStatePower(g, notifyStatus) ==
  LET switchId == notifyStatus.id
      current == notifyStatus.current
  IN IF notnullish(current)
     THEN LET g1 == [g EXCEPT !.loadState.current[switchId] = current]
          IN IF current > NoiseFloor /\ ~Truthy(g1.loadState.output[switchId])
             THEN Obs(log(g1, "WARN output is off yet current"), "warn", TRUE)
             ELSE g1
     ELSE g

\* faulty variant of updateLoadStateOutput: the field is stored whether or
\* not the notification carries it
updateLoadStateOutputNoCheck(g, notifyStatus) ==
  [g EXCEPT !.loadState.output[notifyStatus.id] = notifyStatus.output]

\* faulty variant of updateLoadStateOutput: a report is stored only for a
\* channel whose output is not known yet
updateLoadStateOutputFirstWins(g, notifyStatus) ==
  LET switchId == notifyStatus.id
      output == notifyStatus.output
  IN IF notnullishOutput(output) /\ ~notnullishOutput(g.loadState.output[switchId])
     THEN [g EXCEPT !.loadState.output[switchId] = output]
     ELSE g

\* _updateLoadStateOutput
updateLoadStateOutput(g, notifyStatus) ==
  LET switchId == notifyStatus.id
      output == notifyStatus.output
  IN IF notnullishOutput(output)
     THEN [g EXCEPT !.loadState.output[switchId] = output]
     ELSE g

-----------------------------------------------------------------------------
(* The interlock check *)

\* the first loop of _checkInterlock: the indices of loadState.output, in
\* index order, that are not the primary and hold a truthy output
RECURSIVE switchesOnFrom(_, _, _)
switchesOnFrom(output, i, acc) ==
  IF i >= ArrayLength(output, "undefined") THEN acc
  ELSE IF i = switchPriority[1] THEN switchesOnFrom(output, i + 1, acc)
  ELSE IF Truthy(output[i]) THEN switchesOnFrom(output, i + 1, Append(acc, i))
  ELSE switchesOnFrom(output, i + 1, acc)

\* the "<name> (<current>A)" entries of a notification for a list of switches
switchNames(ls, ids) == [k \in 1 .. Len(ids) |-> <<ids[k], ls.current[ids[k]]>>]

\* faulty variant of checkInterlock: 'cleared' is sent without looking at
\* _interlockNotificationPosted
checkInterlockNoFlag(g, uptime) ==
  LET switchesOn == switchesOnFrom(g.loadState.output, 0, <<>>)
      names == switchNames(g.loadState, switchesOn)
      g1 == Obs(g, "switchesOn", switchesOn)
  IN IF Len(switchesOn) > 1
     THEN [notify(g1, Message(InterlockOnText, names), uptime)
             EXCEPT !.interlockNotificationPosted = TRUE]
     ELSE [notify(g1, Message(InterlockClearedText, names), uptime)
             EXCEPT !.interlockNotificationPosted = FALSE]

\* _checkInterlock
checkInterlock(g, uptime) ==
  LET switchesOn == switchesOnFrom(g.loadState.output, 0, <<>>)
      names == switchNames(g.loadState, switchesOn)
      g1 == Obs(g, "switchesOn", switchesOn)
  IN IF Len(switchesOn) > 1
     THEN [notify(g1, Message(InterlockOnText, names), uptime)
             EXCEPT !.interlockNotificationPosted = TRUE]
     ELSE IF g1.interlockNotificationPosted
     THEN [notify(g1, Message(InterlockClearedText, names), uptime)
             EXCEPT !.interlockNotificationPosted = FALSE]
     ELSE g1

-----------------------------------------------------------------------------
(* Load shedding *)

\* _sumCurrents: the sum over every index of loadState.current
RECURSIVE sumCurrentsFrom(_, _, _)
sumCurrentsFrom(current, i, sum) ==
  IF i >= ArrayLength(current, undefined) THEN sum
  ELSE sumCurrentsFrom(current, i + 1, JsAdd(sum, current[i]))

sumCurrents(ls) == sumCurrentsFrom(ls.current, 0, 0)

\* faulty variant of shedLoop: the loop runs down to the primary (p >= 0 in the script)
RECURSIVE shedLoopWithPrimary(_, _, _)
shedLoopWithPrimary(g, p, totalCurrent) ==
  IF ~(p > 0) THEN [g |-> g, totalCurrent |-> totalCurrent]
  ELSE IF JsLt(totalCurrent, currentMax) THEN [g |-> g, totalCurrent |-> totalCurrent]
  ELSE LET switchId == switchPriority[p]
           g1 == log(g, "_shedLoad totalCurrent")
       IN IF Truthy(g1.loadState.output[switchId])
          THEN LET g2 == Obs(g1, "hitlist", Append(g1.obs.hitlist, switchId))
                   g3 == Obs(g2, "cmds", Append(g2.obs.cmds, [id |-> switchId, on |-> FALSE]))
               IN shedLoopWithPrimary(g3, p - 1,
                                      JsSub(totalCurrent, g3.loadState.current[switchId]))
          ELSE shedLoopWithPrimary(g1, p - 1, totalCurrent)

\* faulty variant of shedLoop: the stored output is not looked at
RECURSIVE shedLoopNoOutputCheck(_, _, _)
shedLoopNoOutputCheck(g, p, totalCurrent) ==
  IF ~(p > 1) THEN [g |-> g, totalCurrent |-> totalCurrent]
  ELSE IF JsLt(totalCurrent, currentMax) THEN [g |-> g, totalCurrent |-> totalCurrent]
  ELSE LET switchId == switchPriority[p]
           g1 == log(g, "_shedLoad totalCurrent")
           g2 == Obs(g1, "hitlist", Append(g1.obs.hitlist, switchId))
           g3 == Obs(g2, "cmds", Append(g2.obs.cmds, [id |-> switchId, on |-> FALSE]))
       IN shedLoopNoOutputCheck(g3, p - 1,
                                JsSub(totalCurrent, g3.loadState.current[switchId]))

\* faulty variant of shedLoop: the loop also stops at exactly currentMax
RECURSIVE shedLoopStopAtMax(_, _, _)
shedLoopStopAtMax(g, p, totalCurrent) ==
  IF ~(p > 1) THEN [g |-> g, totalCurrent |-> totalCurrent]
  ELSE IF totalCurrent # NaN /\ totalCurrent <= currentMax
       THEN [g |-> g, totalCurrent |-> totalCurrent]
  ELSE LET switchId == switchPriority[p]
           g1 == log(g, "_shedLoad totalCurrent")
       IN IF Truthy(g1.loadState.output[switchId])
          THEN LET g2 == Obs(g1, "hitlist", Append(g1.obs.hitlist, switchId))
                   g3 == Obs(g2, "cmds", Append(g2.obs.cmds, [id |-> switchId, on |-> FALSE]))
               IN shedLoopStopAtMax(g3, p - 1,
                                    JsSub(totalCurrent, g3.loadState.current[switchId]))
          ELSE shedLoopStopAtMax(g1, p - 1, totalCurrent)

\* faulty variant of shedLoop: the command carries the stored output of the
\* channel instead of the target state
RECURSIVE shedLoopKeepsOn(_, _, _)
shedLoopKeepsOn(g, p, totalCurrent) ==
  IF ~(p > 1) THEN [g |-> g, totalCurrent |-> totalCurrent]
  ELSE IF JsLt(totalCurrent, currentMax) THEN [g |-> g, totalCurrent |-> totalCurrent]
  ELSE LET switchId == switchPriority[p]
           g1 == log(g, "_shedLoad totalCurrent")
       IN IF Truthy(g1.loadState.output[switchId])
          THEN LET g2 == Obs(g1, "hitlist", Append(g1.obs.hitlist, switchId))
                   g3 == Obs(g2, "cmds", Append(g2.obs.cmds, [id |-> switchId, on |-> TRUE]))
               IN shedLoopKeepsOn(g3, p - 1, JsSub(totalCurrent, g3.loadState.current[switchId]))
          ELSE shedLoopKeepsOn(g1, p - 1, totalCurrent)

\* faulty variant of shedLoop: a pass commands one channel and leaves the
\* rest to the next event
RECURSIVE shedLoopOnePerPass(_, _, _)
shedLoopOnePerPass(g, p, totalCurrent) ==
  IF ~(p > 1) THEN [g |-> g, totalCurrent |-> totalCurrent]
  ELSE IF JsLt(totalCurrent, currentMax) THEN [g |-> g, totalCurrent |-> totalCurrent]
  ELSE LET switchId == switchPriority[p]
           g1 == log(g, "_shedLoad totalCurrent")
       IN IF Truthy(g1.loadState.output[switchId])
          THEN LET g2 == Obs(g1, "hitlist", Append(g1.obs.hitlist, switchId))
                   g3 == Obs(g2, "cmds", Append(g2.obs.cmds, [id |-> switchId, on |-> FALSE]))
               IN [g |-> g3,
                   totalCurrent |-> JsSub(totalCurrent, g3.loadState.current[switchId])]
          ELSE shedLoopOnePerPass(g1, p - 1, totalCurrent)

\* faulty variant of shedLoop: a commanded channel is marked off in the store
\* without waiting for the device to report it
RECURSIVE shedLoopMarksOff(_, _, _)
shedLoopMarksOff(g, p, totalCurrent) ==
  IF ~(p > 1) THEN [g |-> g, totalCurrent |-> totalCurrent]
  ELSE IF JsLt(totalCurrent, currentMax) THEN [g |-> g, totalCurrent |-> totalCurrent]
  ELSE LET switchId == switchPriority[p]
           g1 == log(g, "_shedLoad totalCurrent")
       IN IF Truthy(g1.loadState.output[switchId])
          THEN LET g2 == Obs(g1, "hitlist", Append(g1.obs.hitlist, switchId))
                   g3 == Obs(g2, "cmds", Append(g2.obs.cmds, [id |-> switchId, on |-> FALSE]))
                   g4 == [g3 EXCEPT !.loadState.output[switchId] = "false"]
               IN shedLoopMarksOff(g4, p - 1, JsSub(totalCurrent, g3.loadState.current[switchId]))
          ELSE shedLoopMarksOff(g1, p - 1, totalCurrent)

\* the loop of _shedLoad from priority index p (1-based here: the script's
\* p > 0 is p > 1) down to the entry after the primary
RECURSIVE shedLoop(_, _, _)
shedLoop(g, p, totalCurrent) ==
  IF ~(p > 1) THEN [g |-> g, totalCurrent |-> totalCurrent]
  ELSE IF JsLt(totalCurrent, currentMax) THEN [g |-> g, totalCurrent |-> totalCurrent]
  ELSE LET switchId == switchPriority[p]
           g1 == log(g, "_shedLoad totalCurrent")
       IN IF Truthy(g1.loadState.output[switchId])
          THEN LET g2 == Obs(g1, "hitlist", Append(g1.obs.hitlist, switchId))
                   g3 == Obs(g2, "cmds", Append(g2.obs.cmds, [id |-> switchId, on |-> FALSE]))
               IN shedLoop(g3, p - 1, JsSub(totalCurrent, g3.loadState.current[switchId]))
          ELSE shedLoop(g1, p - 1, totalCurrent)

\* faulty variant of shedLoad: one notification per shed channel
RECURSIVE notifyEach(_, _, _)
notifyEach(g, k, uptime) ==
  IF k > Len(g.obs.hitlist) THEN g
  ELSE notifyEach(notify(g, Message(ShedText, switchNames(g.loadState, <<g.obs.hitlist[k]>>)),
                         uptime),
                  k + 1, uptime)

shedLoadNotifyEach(g, totalCurrent, uptime) ==
  LET r == shedLoop(Obs(g, "shedRan", TRUE), Len(switchPriority), totalCurrent)
  IN notifyEach(Obs(r.g, "projected", r.totalCurrent), 1, uptime)

\* _shedLoad(totalCurrent)
shedLoad(g, totalCurrent, uptime) ==
  LET r == shedLoop(Obs(g, "shedRan", TRUE), Len(switchPriority), totalCurrent)
      g1 == Obs(r.g, "projected", r.totalCurrent)
      hitlist == g1.obs.hitlist
  IN IF Len(hitlist) > 0
     THEN notify(g1, Message(ShedText, switchNames(g1.loadState, hitlist)), uptime)
     ELSE g1

\* faulty variant of overLimit: the limit itself already counts as over
overLimitInclusive(totalCurrent) == totalCurrent # NaN /\ totalCurrent >= currentMax

\* the comparison of updateStatus that decides whether to shed
overLimit(totalCurrent) == JsGt(totalCurrent, currentMax)

\* updateStatus(notifyStatus)
updateStatus(g, notifyStatus, uptime) ==
  IF notifyStatus.aenergy THEN g
  ELSE IF notifyStatus.name # "switch" THEN g
  ELSE LET g1 == updateLoadStateOutput(g, notifyStatus)
           g2 == updateLoadStatePower(g1, notifyStatus)
           g3 == checkInterlock(g2, uptime)
           totalCurrent == sumCurrents(g3.loadState)
           g4 == Obs(log(g3, "doChecks"), "total", totalCurrent)
       IN IF overLimit(totalCurrent) THEN shedLoad(g4, totalCurrent, uptime) ELSE g4

FewStatuses == StatusesOf({40})
AllStatuses == StatusesOf(Currents)
FewNotifications == NotificationsOf(FewCurrents)
AllNotifications == NotificationsOf(Currents)
\* the status notifications of SpecQueue: switch 0 reports a current, or
\* switch 1 reports that it went off
QueueNotifications ==
  {n \in FewNotifications :
     /\ n.name = "switch" /\ ~n.aenergy
     /\ \/ n.id = 0 /\ n.output = "undefined" /\ n.current # undefined
        \/ n.id = 1 /\ n.output = "false" /\ n.current = undefined}

-----------------------------------------------------------------------------
(* The underpower-off script: turn a switch off when its load has been idle *)
(* for a timeout.  Its globals are the fields of the variable underpower;   *)
(* power is in watts, the stored output is one of "null", "true", "false",  *)
(* "waiting".                                                               *)

\* CONFIG.switchId and CONFIG.threshold
underpowerSwitchId == 0
threshold == 50
\* _logQueue.maxSize of this script
underpowerLogMaxSize == 20

\* values of CONFIG.timeout: the published one, and a positive one
Timeouts == {0, 2}
\* power readings: none, just below the threshold, at the threshold
Powers == {0, threshold - 1, threshold}
\* the components that send notifications
Components == {"switch:0", "switch:1"}

\* a status notification: the component, and delta.output and delta.apower
\* when present
SwitchNotifications ==
  [component : Components, output : Outputs \cup {"undefined"}, apower : Powers \cup {undefined}]

\* what Shelly.getComponentStatus('Switch', CONFIG.switchId) can return
SwitchStatuses == [output : Outputs, apower : Powers]

\* what one callback of the script did
UnderpowerBlank(op) ==
  [op |-> op,
   handled |-> FALSE,      \* the notification passed the component filter
   merged |-> "none",      \* switchState.output when the switch statement is reached
   cmds |-> <<>>,          \* Shelly.call('Switch.Set', {id, on})
   queried |-> FALSE,      \* _getSwitchState was called
   completed |-> 0,        \* completions that have run
   console |-> <<>>]       \* lines _callbackLogError wrote

\* the script after its top level has run: init() has armed the log timer and
\* registered the status handler
UnderpowerStart(timeout, uptime) ==
  [switchState |-> [output |-> "null", apower |-> 0, timer |-> 0],
   currentTime |-> 0,
   logQueue |-> <<>>,
   timeout |-> timeout,
   uptime |-> uptime,
   phase |-> 0,
   events |-> 0,           \* history: notifications delivered
   accepted |-> 0,         \* history: notifications that passed the filter
   queries |-> 0,          \* history: calls of _getSwitchState
   obs |-> UnderpowerBlank("init")]

\* _log of this script (CONFIG.log is true)
underpowerLog(u, entry) ==
  IF Len(u.logQueue) < underpowerLogMaxSize
  THEN [u EXCEPT !.logQueue = Append(@, entry)]
  ELSE u

\* _logWrite of this script
underpowerLogWrite(u) ==
  IF Len(u.logQueue) > 0 THEN [u EXCEPT !.logQueue = Tail(@)] ELSE u

\* faulty variant of isTimeExpired: the timeout has to be exceeded
isTimeExpiredStrict(u) == u.currentTime - u.switchState.timer > u.timeout

isTimeExpired(u) == u.currentTime - u.switchState.timer >= u.timeout
isPowerIdle(u) == u.switchState.apower < threshold

\* _getSwitchState
getSwitchState(u, status) ==
  LET u1 == underpowerLog(u, "_getSwitchState status=")
  IN [u1 EXCEPT !.switchState = [output |-> status.output, apower |-> status.apower,
                                 timer |-> u1.currentTime],
                !.queries = @ + 1,
                !.obs.queried = TRUE]

\* faulty variant of updateSwitchOutput: the field is stored whether or not
\* the notification carries it
updateSwitchOutputNoCheck(u, notifyStatus) ==
  LET output == notifyStatus.output
      u1 == underpowerLog(u, "_updateSwitchOutput output=")
  IN IF u1.switchState.output # output /\ output = "true"
     THEN LET u2 == underpowerLog(u1, "_updateSwitchOutput reset timer")
          IN [u2 EXCEPT !.switchState.timer = u2.currentTime,
                        !.switchState.output = "waiting"]
     ELSE [u1 EXCEPT !.switchState.output = output]

\* _updateSwitchOutput
updateSwitchOutput(u, notifyStatus) ==
  LET output == notifyStatus.output
  IN IF ~notnullishOutput(output) THEN u
     ELSE LET u1 == underpowerLog(u, "_updateSwitchOutput output=")
          IN IF u1.switchState.output # output /\ output = "true"
             THEN LET u2 == underpowerLog(u1, "_updateSwitchOutput reset timer")
                  IN [u2 EXCEPT !.switchState.timer = u2.currentTime,
                                !.switchState.output = "waiting"]
             ELSE [u1 EXCEPT !.switchState.output = output]

\* _updateSwitchPower
updateSwitchPower(u, notifyStatus) ==
  LET apower == notifyStatus.apower
  IN IF ~notnullish(apower) THEN u
     ELSE LET u1 == underpowerLog(u, "_updateSwitchPower apower=")
              idlePrev == isPowerIdle(u1)
              u2 == [u1 EXCEPT !.switchState.apower = apower]
          IN IF isPowerIdle(u2) # idlePrev
             THEN IF idlePrev = FALSE
                  THEN [underpowerLog(u2, "_updateSwitchPower reset timer")
                          EXCEPT !.switchState.timer = u2.currentTime]
                  ELSE [underpowerLog(u2, "_updateSwitchPower no longer waiting")
                          EXCEPT !.switchState.output = "true"]
             ELSE u2

\* statusHandler(notifyStatus); status is what the device would answer to
\* _getSwitchState
statusHandler(u, notifyStatus, status) ==
  IF notifyStatus.component # "switch:0" THEN u
  ELSE LET u1 == [u EXCEPT !.currentTime = u.uptime, !.accepted = @ + 1,
                           !.obs.handled = TRUE]
           u2 == updateSwitchPower(u1, notifyStatus)
           u3 == updateSwitchOutput(u2, notifyStatus)
           u4 == [u3 EXCEPT !.obs.merged = u3.switchState.output]
           u5 == CASE u4.switchState.output = "true" ->
                        LET u41 == underpowerLog(u4, "on p=")
                        IN IF isPowerIdle(u41) /\ isTimeExpired(u41)
                           THEN [underpowerLog(u41, "idle, timer expired: turning off")
                                   EXCEPT !.obs.cmds = Append(@, [id |-> underpowerSwitchId, on |-> FALSE])]
                           ELSE u41
                   [] u4.switchState.output \in {"waiting", "false"} -> u4
                   [] OTHER -> getSwitchState(u4, status)
       IN underpowerLog(u5, "switchState")

-----------------------------------------------------------------------------
(* The notification demo: rate-limited notifications served by a one-shot   *)
(* timer.  Its globals are the fields of the variable demo.  A message is a *)
(* tuple of its words; a queue entry is the message with its sequence       *)
(* number.                                                                  *)

\* _notifyQueue.maxSize of this script
demoMaxSize == 5

\* what one callback of the script did
DemoBlank(op) ==
  [op |-> op,
   notified |-> <<>>,      \* messages passed to _notify
   ignored |-> <<>>,       \* messages _notify returned on as duplicates
   enq |-> <<>>,           \* entries pushed onto the queue
   evicted |-> <<>>,       \* entries dropped from the head by overflow
   evictedAt |-> <<>>,     \* for each of them, the number of the push that dropped it
   posted |-> <<>>,        \* entries handed to postNotification
   flushed |-> <<>>]       \* among them, those sent by the _notify call that queued them

\* the script loaded, before its top-level init() runs
DemoLoaded(uptime) ==
  [queue |-> <<>>,
   lastMessageTime |-> 0,
   timerHandle |-> "null",
   timerArmed |-> FALSE,   \* the host holds a pending one-shot timer
   timers |-> 0,           \* the number of pending one-shot timers it holds
   timerDue |-> 0,         \* the uptime at which it fires
   lastMessage |-> <<"undefined">>,
   sequenceNumber |-> 0,
   uptime |-> uptime,
   started |-> FALSE,
   events |-> 0,           \* history: status notifications delivered
   obs |-> DemoBlank("load")]

\* postNotification of this script: a console line (the HTTP call is
\* commented out)
demoPostNotification(d, entry) == [d EXCEPT !.obs.posted = Append(@, entry)]

\* faulty variant of demoNotifyWrite: a flush is sent whatever the time since
\* the last message
demoNotifyWriteAlways(d, byTimer) ==
  LET t == d.uptime
      go == Len(d.queue) > 0
      d1 == IF go
            THEN [demoPostNotification(d, Head(d.queue)) EXCEPT
                    !.queue = Tail(@), !.lastMessageTime = t]
            ELSE d
      remaining == IF go THEN DemoInterval ELSE DemoInterval - (t - d.lastMessageTime)
      d2 == IF byTimer THEN [d1 EXCEPT !.timerHandle = "null"] ELSE d1
  IN IF Len(d2.queue) = 0
     THEN IF d2.timerHandle # "null"
          THEN [d2 EXCEPT !.timerArmed = FALSE,
                          !.timers = IF d2.timerArmed THEN @ - 1 ELSE @]
          ELSE d2
     ELSE IF d2.timerHandle = "null"
          THEN [d2 EXCEPT !.timerHandle = "handle", !.timerArmed = TRUE,
                          !.timers = @ + 1,
                          !.timerDue = t + Max2(0, Min2(remaining, DemoInterval))]
          ELSE d2

\* faulty variant of demoNotifyWrite: the timer callback does not reset
\* _timerHandle
demoNotifyWriteKeepsHandle(d, byTimer) ==
  LET t == d.uptime
      remaining0 == DemoInterval - (t - d.lastMessageTime)
      go == (byTimer \/ remaining0 < 0) /\ Len(d.queue) > 0
      d2 == IF go
            THEN [demoPostNotification(d, Head(d.queue)) EXCEPT
                    !.queue = Tail(@), !.lastMessageTime = t]
            ELSE d
      remaining == IF go THEN DemoInterval ELSE remaining0
  IN IF Len(d2.queue) = 0
     THEN IF d2.timerHandle # "null"
          THEN [d2 EXCEPT !.timerArmed = FALSE,
                          !.timers = IF d2.timerArmed THEN @ - 1 ELSE @]
          ELSE d2
     ELSE IF d2.timerHandle = "null"
          THEN [d2 EXCEPT !.timerHandle = "handle", !.timerArmed = TRUE,
                          !.timers = @ + 1,
                          !.timerDue = t + Max2(0, Min2(remaining, DemoInterval))]
          ELSE d2

\* _notifyWrite(byTimer) of this script
demoNotifyWrite(d, byTimer) ==
  LET t == d.uptime
      remaining0 == DemoInterval - (t - d.lastMessageTime)
      go == (byTimer \/ remaining0 < 0) /\ Len(d.queue) > 0
      d1 == IF go
            THEN [demoPostNotification(d, Head(d.queue)) EXCEPT
                    !.queue = Tail(@), !.lastMessageTime = t]
            ELSE d
      remaining == IF go THEN DemoInterval ELSE remaining0
      d2 == IF byTimer THEN [d1 EXCEPT !.timerHandle = "null"] ELSE d1
  IN IF Len(d2.queue) = 0
     THEN \* Timer.clear: the handle variable keeps its value
          IF d2.timerHandle # "null"
          THEN [d2 EXCEPT !.timerArmed = FALSE,
                          !.timers = IF d2.timerArmed THEN @ - 1 ELSE @]
          ELSE d2
     ELSE IF d2.timerHandle = "null"
          THEN [d2 EXCEPT !.timerHandle = "handle", !.timerArmed = TRUE,
                          !.timers = @ + 1,
                          !.timerDue = t + Max2(0, Min2(remaining, DemoInterval))]
          ELSE d2

\* _notify(message) of this script
demoNotify(d, message) ==
  LET d0 == [d EXCEPT !.obs.notified = Append(@, message)]
  IN IF message = d0.lastMessage THEN [d0 EXCEPT !.obs.ignored = Append(@, message)]
     ELSE LET d1 == [d0 EXCEPT !.lastMessage = message]
              entry == [message |-> message, seq |-> d1.sequenceNumber]
              d2 == IF Len(d1.queue) >= demoMaxSize
                    THEN [d1 EXCEPT !.queue = Tail(@),
                                    !.obs.evicted = Append(@, Head(d1.queue)),
                                    !.obs.evictedAt = Append(@, Len(d1.obs.enq) + 1)]
                    ELSE d1
              d3 == [d2 EXCEPT !.queue = Append(@, entry),
                               !.sequenceNumber = @ + 1,
                               !.obs.enq = Append(@, entry)]
              d4 == demoNotifyWrite(d3, FALSE)
          IN IF Len(d4.obs.posted) > Len(d3.obs.posted) /\ d3.queue = <<entry>>
             THEN [d4 EXCEPT !.obs.flushed = Append(@, entry)]
             ELSE d4

\* the loop of init(): _notify('start', i) for i from i to maxSize + 1
RECURSIVE demoBurst(_, _)
demoBurst(d, i) ==
  IF ~(i < demoMaxSize + 2) THEN d
  ELSE demoBurst(demoNotify(d, <<"start", i>>), i + 1)

\* init() of this script
demoInit(d) ==
  LET d1 == demoNotify(d, <<"script start">>)
      d2 == demoNotify(d1, <<"script start">>)
      d3 == demoBurst(d2, 1)
  IN [d3 EXCEPT !.started = TRUE]

\* status notifications of the demo: name, id, and delta.aenergy and
\* delta.output when present
DemoNotifications ==
  [name : {"switch"}, id : {0, 1}, aenergy : BOOLEAN, output : Outputs \cup {"undefined"}]

\* updateStatus(notifyStatus) of this script
demoUpdateStatus(d, notifyStatus) ==
  IF notifyStatus.aenergy THEN d
  ELSE demoNotify(d, <<"update from", notifyStatus.name, notifyStatus.id,
                       IF notifyStatus.output = "undefined" THEN ""
                       ELSE IF notifyStatus.output = "true" THEN "(on)" ELSE "(off)">>)

-----------------------------------------------------------------------------
(* The poll loop snippet: Shelly.GetConfig polled by a state-driven loop of *)
(* one-shot timers.  Its globals are the fields of the variable poll; the   *)
(* clock is in milliseconds.                                                *)

\* _pollInterval, and the value of _pollCounter above which the loop gives up
pollInterval == 1
pollGiveUp == 10

\* the snippet loaded, before its top-level pollGetConfig() runs
PollLoaded ==
  [pollCounter |-> 0,
   deviceConfig |-> "undefined",
   callPending |-> FALSE,  \* Shelly.GetConfig was called, its callback has not run
   timers |-> 0,           \* pending one-shot timers the host holds
   timerDue |-> 0,         \* the clock at which the last one armed fires
   clock |-> 0,
   started |-> FALSE,
   state |-> "none",       \* the state the last pollGetConfig() was in
   calls |-> 0,            \* history: Shelly.GetConfig calls made
   polls |-> 0,            \* history: calls of pollGetConfig
   inits |-> 0]            \* history: calls of init

\* init() of the snippet
pollInit(p) == [p EXCEPT !.inits = @ + 1]

\* the state pollGetConfig selects: the later tests override the earlier
pollState(counter) ==
  LET s0 == "REPEAT"
      s1 == IF counter = 0 THEN "INIT" ELSE s0
      s2 == IF counter < 0 THEN "DONE" ELSE s1
  IN IF counter > pollGiveUp THEN "GIVEUP" ELSE s2

\* faulty variant of pollGetConfig: the DONE and GIVEUP cases arm the timer
\* again after init()
pollGetConfigRearm(p) ==
  LET state == pollState(p.pollCounter)
      p1 == [p EXCEPT !.pollCounter = @ + 1, !.state = state, !.polls = @ + 1]
  IN IF state = "INIT"
     THEN [p1 EXCEPT !.callPending = TRUE, !.calls = @ + 1,
                     !.timers = @ + 1, !.timerDue = p1.clock + pollInterval]
     ELSE IF state = "REPEAT"
     THEN [p1 EXCEPT !.timers = @ + 1,
                     !.timerDue = p1.clock + 3 * pollInterval * p1.pollCounter]
     ELSE [pollInit(p1) EXCEPT !.timers = @ + 1,
                               !.timerDue = p1.clock + pollInterval]

\* pollGetConfig()
pollGetConfig(p) ==
  LET state == pollState(p.pollCounter)
      p1 == [p EXCEPT !.pollCounter = @ + 1, !.state = state, !.polls = @ + 1]
  IN IF state = "INIT"
     THEN [p1 EXCEPT !.callPending = TRUE, !.calls = @ + 1,
                     !.timers = @ + 1, !.timerDue = p1.clock + pollInterval]
     ELSE IF state = "REPEAT"
     THEN [p1 EXCEPT !.timers = @ + 1,
                     !.timerDue = p1.clock + 3 * pollInterval * p1.pollCounter]
     ELSE pollInit(p1)

\* _callbackGetConfig(result) of the snippet, with a result
pollCallbackGetConfig(p) ==
  [p EXCEPT !.deviceConfig = "config", !.pollCounter = -1, !.callPending = FALSE]

-----------------------------------------------------------------------------
(* The health check: one run of the bash script per step.  The state file   *)
(* is the field file of the variable health.  Two versions of the script   *)
(* are followed, which differ in the rule of the notification.             *)

MAXTEMP == 60

\* the versions of the script
HealthScripts == {"part_003", "pingshelly.sh"}

\* no state file
NoStateFile == [exists |-> FALSE, uptime |-> 0, errcount |-> 0]

\* before the first run
HealthLoaded(script) ==
  [script |-> script,
   file |-> NoStateFile,
   runs |-> 0,             \* history: runs made
   failures |-> 0,         \* history: failed runs since the last successful one
   rc |-> -1,              \* exit status of the last run
   notified |-> FALSE,     \* the last run sent a notification
   priority |-> FALSE]     \* with the high priority header

\* what the device answers: nothing usable (no connection, an HTTP error,
\* fields missing), or sys.uptime and the temperature, rounded to an integer
NoReply == [uptime |-> -1, temperature |-> -1]

\* the & of bash arithmetic, for non-negative operands
RECURSIVE BitAnd(_, _)
BitAnd(a, b) ==
  IF a = 0 \/ b = 0 THEN 0
  ELSE (a % 2) * (b % 2) + 2 * BitAnd(a \div 2, b \div 2)

\* the test that guards the notification, in either version
healthNotifies(script, errcount) ==
  IF script = "part_003" THEN errcount = 1
  ELSE BitAnd(errcount + 1, errcount) = 0

\* get_shelly_status: the exit status of the subshell
getShellyStatus(reply, uptime) ==
  IF reply = NoReply THEN 1
  ELSE IF reply.uptime < uptime THEN 10
  ELSE IF reply.temperature > MAXTEMP THEN 100
  ELSE 0

\* faulty variant of healthRun: a successful run leaves errcount as it was
healthRunNoReset(h, reply) ==
  LET uptime == IF h.file.exists THEN h.file.uptime ELSE 0
      errcount == IF h.file.exists THEN h.file.errcount ELSE 0
      rc == getShellyStatus(reply, uptime)
      h1 == [h EXCEPT !.runs = @ + 1, !.rc = rc,
                      !.failures = IF rc = 0 THEN 0 ELSE @ + 1]
  IN IF rc = 0
     THEN [h1 EXCEPT !.file = [exists |-> TRUE, uptime |-> reply.uptime,
                               errcount |-> errcount],
                     !.notified = FALSE, !.priority = FALSE]
     ELSE [h1 EXCEPT !.file = [exists |-> TRUE, uptime |-> uptime,
                               errcount |-> errcount + 1],
                     !.notified = healthNotifies(h.script, errcount + 1),
                     !.priority = healthNotifies(h.script, errcount + 1) /\ rc >= 100]

\* one run of the script: the state is loaded from the file if there is one,
\* the device is asked, and the EXIT trap writes the state back
healthRun(h, reply) ==
  LET uptime == IF h.file.exists THEN h.file.uptime ELSE 0
      errcount == IF h.file.exists THEN h.file.errcount ELSE 0
      rc == getShellyStatus(reply, uptime)
      h1 == [h EXCEPT !.runs = @ + 1, !.rc = rc,
                      !.failures = IF rc = 0 THEN 0 ELSE @ + 1]
  IN IF rc = 0
     THEN [h1 EXCEPT !.file = [exists |-> TRUE, uptime |-> reply.uptime,
                               errcount |-> 0],
                     !.notified = FALSE, !.priority = FALSE]
     ELSE [h1 EXCEPT !.file = [exists |-> TRUE, uptime |-> uptime,
                               errcount |-> errcount + 1],
                     !.notified = healthNotifies(h.script, errcount + 1),
                     !.priority = healthNotifies(h.script, errcount + 1) /\ rc >= 100]

-----------------------------------------------------------------------------
(* The state machine *)

\* uptimes at which the script may be started: a fresh boot, and a device
\* that has been up for longer than the notification interval
StartUptimes == {0, NotifyInterval + 1}

\* The state once the script's top level has run: getDeviceConfigThenInit()
\* has made the Shelly.GetConfig call and armed its first poll timer.
LoadshedStart(logging, seconds) ==
  /\ switchPriority \in PriorityOrders
  /\ logEnabled = logging
  /\ notifyInterval = seconds
  /\ loadState = EmptyLoadState
  /\ interlockNotificationPosted = FALSE
  /\ lastNotificationMessage = NoMessage
  /\ notifyQueue = <<>>
  /\ lastNotificationTime = 0
  /\ notificationIntervalCount = 0
  /\ currentTime = 0
  /\ logQueue = <<>>
  /\ gotDeviceConfig = FALSE
  /\ host \in [uptime : StartUptimes, phase : {0},
               getConfigPending : {TRUE}, pollTimer : {TRUE},
               logTimers : {0}, statusHandlers : {0}, inits : {0}]
  /\ obs = Blank("start")
  /\ hist = [events |-> 0, count |-> 0, prevCount |-> 0, onOutstanding |-> FALSE,
             prevOnOutstanding |-> FALSE, prevLastMessage |-> NoMessage]

\* CONFIG.log is true and the notification interval is NotifyInterval
LoadshedInit == LoadshedStart(TRUE, NotifyInterval)

\* The loadshed script is followed; the underpower-off script has been
\* started and takes no step.
Init ==
  /\ LoadshedInit
  /\ underpower = UnderpowerStart(0, 0)
  /\ demo = DemoLoaded(0)
  /\ poll = PollLoaded
  /\ health = HealthLoaded("part_003")

\* the messages of kind `text` in a sequence of messages
OfKind(msgs, text) == SelectSeq(msgs, LAMBDA m : m.kind = text)

\* History kept for the properties: the number of status notifications
\* delivered; the interlock count of the latest evaluation and of the one
\* before it; whether an 'on' notification was queued since the last
\* 'cleared' one, now and before the latest evaluation; and the duplicate
\* key (_lastNotificationMessage) as it was before the latest evaluation.
NextHist(g, evaluated) ==
  IF ~evaluated THEN [hist EXCEPT !.events = @ + 1]
  ELSE
  [events |-> hist.events + 1,
   count |-> Len(g.obs.switchesOn),
   prevCount |-> hist.count,
   onOutstanding |->
     IF OfKind(g.obs.enq, InterlockOnText) # <<>> THEN TRUE
     ELSE IF OfKind(g.obs.notified, InterlockClearedText) # <<>> THEN FALSE
     ELSE hist.onOutstanding,
   prevOnOutstanding |-> hist.onOutstanding,
   prevLastMessage |-> lastNotificationMessage]

\* _callbackGetConfig: the Shelly.GetConfig call completes (with or without
\* an error; either way only the names used in message texts change)
CallbackGetConfig ==
  /\ host.getConfigPending
  /\ gotDeviceConfig' = TRUE
  /\ host' = [host EXCEPT !.getConfigPending = FALSE]
  /\ obs' = Blank("_callbackGetConfig")
  /\ UNCHANGED <<switchPriority, logEnabled, notifyInterval, loadState, interlockNotificationPosted,
                 lastNotificationMessage, notifyQueue, lastNotificationTime,
                 notificationIntervalCount, currentTime, logQueue, hist, underpower, demo, poll, health>>

\* init(): arm the log timer, synchronize the store, register the status
\* handler, queue the 'script start' notification
init(g, status, uptime) ==
  LET g1 == getloadState(g, status)
      g2 == log(g1, "loadState")
  IN notify(g2, Message(StartText, <<>>), uptime)

\* faulty variant of initHost: the poll timer is a repeating one, and fires
\* once more after init()
initHostRepeating(h) ==
  [h EXCEPT !.pollTimer = (h.inits < 1),
            !.logTimers = IF logEnabled THEN @ + 1 ELSE @,
            !.statusHandlers = @ + 1,
            !.inits = @ + 1]

\* faulty variant of initHost: the log timer is armed whatever CONFIG.log says
initHostAlwaysTimer(h) ==
  [h EXCEPT !.pollTimer = FALSE,
            !.logTimers = @ + 1,
            !.statusHandlers = @ + 1,
            !.inits = @ + 1]

\* the host bookkeeping of init(): Timer.set and Shelly.addStatusHandler
initHost(h) ==
  [h EXCEPT !.pollTimer = FALSE,
            !.logTimers = IF logEnabled THEN @ + 1 ELSE @,
            !.statusHandlers = @ + 1,
            !.inits = @ + 1]

\* getDeviceConfigThenInit(true): the poll timer fires
PollTimer(statuses) ==
  /\ host.pollTimer
  /\ IF ~gotDeviceConfig
     THEN /\ obs' = Blank("getDeviceConfigThenInit")
          /\ UNCHANGED <<host, loadState, interlockNotificationPosted,
                         lastNotificationMessage, notifyQueue, lastNotificationTime,
                         notificationIntervalCount, currentTime, logQueue>>
     ELSE /\ \E status \in statuses :
               Commit(init([Globals EXCEPT !.obs = Blank("init")], status, host.uptime))
          /\ host' = initHost(host)
  /\ UNCHANGED <<switchPriority, logEnabled, notifyInterval, gotDeviceConfig, hist, underpower, demo, poll, health>>

\* the host delivers a status notification to the registered handler
StatusNotification(notifications, maxEvents) ==
  /\ host.statusHandlers > 0
  /\ hist.events < maxEvents
  /\ \E notifyStatus \in notifications :
       LET g0 == [Globals EXCEPT !.obs = Blank("updateStatus")]
           g == updateStatus(g0, notifyStatus, host.uptime)
       IN /\ Commit(g)
          /\ hist' = NextHist(g, g.obs.total # undefined)
  /\ UNCHANGED <<switchPriority, logEnabled, notifyInterval, gotDeviceConfig, host, underpower, demo, poll, health>>

\* one period of the log timer elapses; if the timer is armed, _logWrite runs.
\* The clock is followed from init() on: no callback before it reads the
\* uptime, and the time spent before it is the choice of StartUptimes.
Tick ==
  /\ host.inits > 0
  /\ host.phase < TicksPerSecond
  /\ host' = [host EXCEPT !.phase = @ + 1]
  /\ IF host.logTimers > 0
     THEN Commit(logWrite([Globals EXCEPT !.obs = Blank("_logWrite")], host.uptime))
     ELSE /\ obs' = Blank("idle")
          /\ UNCHANGED <<loadState, interlockNotificationPosted, lastNotificationMessage,
                         notifyQueue, lastNotificationTime, notificationIntervalCount,
                         currentTime, logQueue>>
  /\ UNCHANGED <<switchPriority, logEnabled, notifyInterval, gotDeviceConfig, hist, underpower, demo, poll, health>>

\* the uptime the host reports moves on by one second
SecondBoundary(maxUptime) ==
  /\ host.phase = TicksPerSecond
  /\ host.uptime < maxUptime
  /\ host' = [host EXCEPT !.phase = 0, !.uptime = @ + 1]
  /\ obs' = Blank("uptime")
  /\ UNCHANGED <<switchPriority, logEnabled, notifyInterval, loadState, interlockNotificationPosted,
                 lastNotificationMessage, notifyQueue, lastNotificationTime,
                 notificationIntervalCount, currentTime, logQueue, gotDeviceConfig, hist, underpower, demo, poll, health>>

\* faulty variant of callbackLogError: a failed call is issued again
callbackLogErrorRetry(g, errorCode) ==
  IF errorCode # 0
  THEN LET g1 == Obs(g, "console", Append(g.obs.console, "call failed"))
       IN IF g1.obs.cmds # <<>>
          THEN Obs(g1, "cmds", Append(g1.obs.cmds, g1.obs.cmds[Len(g1.obs.cmds)]))
          ELSE Obs(g1, "posted", Append(g1.obs.posted, g1.obs.posted[Len(g1.obs.posted)]))
  ELSE g

\* _callbackLogError: the completion callback of every Switch.Set and
\* HTTP.Request call
callbackLogError(g, errorCode) ==
  IF errorCode # 0
  THEN Obs(g, "console", Append(g.obs.console, "call failed"))
  ELSE g

\* error codes a completion can carry: success, and a failure code
ErrorCodes == {0, -103}

\* calls the last script callback issued whose completion has not run yet
OutstandingCalls == Len(obs.cmds) + Len(obs.posted) - obs.completed

\* the host completes one of the calls the last callback issued.  The
\* completions are followed while no other callback of the script has run:
\* the record of the issued calls stays in obs for the comparison.
CallbackLogError(errorCodes) ==
  /\ OutstandingCalls > 0
  /\ \E errorCode \in errorCodes :
       Commit(callbackLogError(
                [Globals EXCEPT !.obs = [obs EXCEPT !.op = "_callbackLogError",
                                                    !.completed = @ + 1]],
                errorCode))
  /\ UNCHANGED <<switchPriority, logEnabled, notifyInterval, gotDeviceConfig, host, hist, underpower, demo, poll, health>>

\* Long behaviours: the device reports currents of FewCurrents, and up to
\* MaxEvents status notifications are delivered.
Next ==
  \/ CallbackGetConfig
  \/ PollTimer(FewStatuses)
  \/ StatusNotification(FewNotifications, MaxEvents)
  \/ Tick
  \/ SecondBoundary(MaxUptime)

Spec == Init /\ [][Next]_vars

\* Every store the synchronization can produce over Currents, followed up to
\* the first status notification after startup.
NextShed ==
  \/ CallbackGetConfig
  \/ PollTimer(AllStatuses)
  \/ StatusNotification(AllNotifications, 1)
  \/ Tick
  \/ SecondBoundary(MaxUptime)

SpecShed == Init /\ [][NextShed]_vars

\* The store alone: every store the synchronization and one status
\* notification can produce over Currents, with the timer left out (it does
\* not touch the store).
NextStore ==
  \/ CallbackGetConfig
  \/ PollTimer(AllStatuses)
  \/ StatusNotification(AllNotifications, 1)

SpecStore == Init /\ [][NextStore]_vars

\* The queues under load: few distinct status notifications, but many of
\* them, interleaved with the ticks of several seconds.
NextQueue ==
  \/ CallbackGetConfig
  \/ PollTimer(FewStatuses)
  \/ StatusNotification(QueueNotifications, MaxQueueEvents)
  \/ Tick
  \/ SecondBoundary(MaxQueueUptime)

SpecQueue == Init /\ [][NextQueue]_vars

\* The calls and their completions: status notifications that shed and
\* notify, the timer that sends, and every completion with or without an
\* error.
NextCalls ==
  \/ CallbackGetConfig
  \/ PollTimer(FewStatuses)
  \/ StatusNotification(QueueNotifications, MaxCallEvents)
  \/ Tick
  \/ SecondBoundary(MaxCallUptime)
  \/ CallbackLogError(ErrorCodes)

SpecCalls == Init /\ [][NextCalls]_vars

\* The pace of the notifications: an interval of several seconds, followed
\* for long enough to send several notifications one interval apart.
InitPace ==
  /\ LoadshedStart(TRUE, PaceInterval)
  /\ underpower = UnderpowerStart(0, 0)
  /\ demo = DemoLoaded(0)
  /\ poll = PollLoaded
  /\ health = HealthLoaded("part_003")

NextPace ==
  \/ CallbackGetConfig
  \/ PollTimer(FewStatuses)
  \/ StatusNotification(QueueNotifications, MaxPaceEvents)
  \/ Tick
  \/ SecondBoundary(MaxPaceUptime)

SpecPace == InitPace /\ [][NextPace]_vars

\* Logging disabled: CONFIG.log is false, so init() arms no log timer and
\* the periods of Tick pass without a callback.
InitQuiet ==
  /\ LoadshedStart(FALSE, NotifyInterval)
  /\ underpower = UnderpowerStart(0, 0)
  /\ demo = DemoLoaded(0)
  /\ poll = PollLoaded
  /\ health = HealthLoaded("part_003")

NextQuiet ==
  \/ CallbackGetConfig
  \/ PollTimer(FewStatuses)
  \/ StatusNotification(QueueNotifications, MaxQuietEvents)
  \/ Tick
  \/ SecondBoundary(MaxQuietUptime)

SpecQuiet == InitQuiet /\ [][NextQuiet]_vars

\* The bootstrap under a fair host: the Shelly.GetConfig call completes and
\* a poll timer that is armed fires.
NextBoot ==
  \/ CallbackGetConfig
  \/ PollTimer(FewStatuses)
  \/ StatusNotification(QueueNotifications, MaxBootEvents)
  \/ Tick
  \/ SecondBoundary(MaxUptime)

SpecBoot ==
  /\ Init /\ [][NextBoot]_vars
  /\ WF_vars(CallbackGetConfig)
  /\ WF_vars(PollTimer(FewStatuses))

\* The queues under a fair timer.  The host fires the repeating log timer
\* every period and its uptime moves on, which is what the fairness
\* conditions state.  Status notifications stop arriving after
\* LiveEventHorizon seconds of uptime, and the uptime is followed for long
\* enough after it to send every notification they can have queued, one per
\* interval, and then to print a full log queue, one entry per tick.
LiveEventHorizon == NotifyInterval + 2
LiveMaxUptime ==
  LiveEventHorizon + (2 * MaxLiveEvents + 2) * (NotifyInterval + 1) + logMaxSize

NextLive ==
  \/ CallbackGetConfig
  \/ PollTimer(FewStatuses)
  \/ (host.uptime <= LiveEventHorizon /\ StatusNotification(QueueNotifications, MaxLiveEvents))
  \/ Tick
  \/ SecondBoundary(LiveMaxUptime)

SpecLive ==
  /\ Init /\ [][NextLive]_vars
  /\ WF_vars(Tick)
  /\ WF_vars(SecondBoundary(LiveMaxUptime))

-----------------------------------------------------------------------------
(* The state machine of the underpower-off script *)

loadshedVars == <<switchPriority, logEnabled, notifyInterval, loadState, interlockNotificationPosted,
                  lastNotificationMessage, notifyQueue, lastNotificationTime,
                  notificationIntervalCount, currentTime, logQueue, gotDeviceConfig,
                  host, obs, hist>>

\* the underpower-off script has been started, with either timeout; the
\* loadshed script takes no step in these behaviours
InitUnderpower ==
  /\ LoadshedInit
  /\ switchPriority = <<2, 0, 1>>
  /\ host.uptime = 0
  /\ underpower \in {UnderpowerStart(timeout, 0) : timeout \in Timeouts}
  /\ demo = DemoLoaded(0)
  /\ poll = PollLoaded
  /\ health = HealthLoaded("part_003")

\* _callbackLogError of this script
underpowerCallbackLogError(u, errorCode) ==
  IF errorCode # 0
  THEN [u EXCEPT !.obs.console = Append(@, "call failed")]
  ELSE u

\* the host delivers a status notification to statusHandler
UnderpowerStatus(notifications) ==
  /\ underpower.events < MaxUnderpowerEvents
  /\ \E notifyStatus \in notifications : \E status \in SwitchStatuses :
       underpower' = statusHandler(
                       [underpower EXCEPT !.obs = UnderpowerBlank("statusHandler"),
                                          !.events = @ + 1],
                       notifyStatus, status)
  /\ UNCHANGED <<loadshedVars, demo, poll, health>>

\* one period of the log timer elapses: _logWrite runs
UnderpowerTick ==
  /\ underpower.phase < TicksPerSecond
  /\ underpower' = [underpowerLogWrite(underpower) EXCEPT
                      !.phase = @ + 1, !.obs = UnderpowerBlank("_logWrite")]
  /\ UNCHANGED <<loadshedVars, demo, poll, health>>

\* the uptime the host reports moves on by one second
UnderpowerSecond ==
  /\ underpower.phase = TicksPerSecond
  /\ underpower.uptime < MaxUnderpowerUptime
  /\ underpower' = [underpower EXCEPT !.phase = 0, !.uptime = @ + 1,
                                      !.obs = UnderpowerBlank("uptime")]
  /\ UNCHANGED <<loadshedVars, demo, poll, health>>

\* the host completes the Switch.Set call the last handler issued
UnderpowerCallbackLogError(errorCodes) ==
  /\ Len(underpower.obs.cmds) - underpower.obs.completed > 0
  /\ \E errorCode \in errorCodes :
       underpower' = underpowerCallbackLogError(
                       [underpower EXCEPT !.obs.op = "_callbackLogError",
                                          !.obs.completed = @ + 1],
                       errorCode)
  /\ UNCHANGED <<loadshedVars, demo, poll, health>>

NextUnderpower ==
  \/ UnderpowerStatus(SwitchNotifications)
  \/ UnderpowerTick
  \/ UnderpowerSecond
  \/ UnderpowerCallbackLogError(ErrorCodes)

SpecUnderpower == InitUnderpower /\ [][NextUnderpower]_vars

-----------------------------------------------------------------------------
(* The state machine of the notification demo *)

\* uptimes at which the demo may be started: a fresh boot, exactly one
\* interval after it, and later
DemoStartUptimes == {0, DemoInterval, DemoInterval + 1}

\* the demo has been loaded; the other two scripts take no step in these
\* behaviours
InitDemo ==
  /\ LoadshedInit
  /\ switchPriority = <<2, 0, 1>>
  /\ host.uptime = 0
  /\ underpower = UnderpowerStart(0, 0)
  /\ demo \in {DemoLoaded(uptime) : uptime \in DemoStartUptimes}
  /\ poll = PollLoaded
  /\ health = HealthLoaded("part_003")

\* the top level of the script runs init()
DemoStart ==
  /\ ~demo.started
  /\ demo' = demoInit([demo EXCEPT !.obs = DemoBlank("init")])
  /\ UNCHANGED <<loadshedVars, underpower, poll, health>>

\* the host delivers a status notification to updateStatus
DemoStatus(notifications) ==
  /\ demo.started
  /\ demo.events < MaxDemoEvents
  /\ \E notifyStatus \in notifications :
       demo' = demoUpdateStatus(
                 [demo EXCEPT !.obs = DemoBlank("updateStatus"), !.events = @ + 1],
                 notifyStatus)
  /\ UNCHANGED <<loadshedVars, underpower, poll, health>>

\* the pending one-shot timer fires: _notifyWrite(true)
DemoTimer ==
  /\ demo.timerArmed
  /\ demo.uptime >= demo.timerDue
  /\ demo' = demoNotifyWrite(
               [demo EXCEPT !.timerArmed = FALSE, !.timers = @ - 1,
                            !.obs = DemoBlank("_notifyWrite")],
               TRUE)
  /\ UNCHANGED <<loadshedVars, underpower, poll, health>>

\* the uptime the host reports moves on by one second, once a timer that is
\* due has fired
DemoSecondTo(maxUptime) ==
  /\ demo.uptime < maxUptime
  /\ ~(demo.timerArmed /\ demo.uptime >= demo.timerDue)
  /\ demo' = [demo EXCEPT !.uptime = @ + 1, !.obs = DemoBlank("uptime")]
  /\ UNCHANGED <<loadshedVars, underpower, poll, health>>

\* the same, in the behaviours of SpecDemo
DemoSecond ==
  /\ demo.uptime < MaxDemoUptime
  /\ ~(demo.timerArmed /\ demo.uptime >= demo.timerDue)
  /\ demo' = [demo EXCEPT !.uptime = @ + 1, !.obs = DemoBlank("uptime")]
  /\ UNCHANGED <<loadshedVars, underpower, poll, health>>

NextDemo ==
  \/ DemoStart
  \/ DemoStatus(DemoNotifications)
  \/ DemoTimer
  \/ DemoSecond

SpecDemo == InitDemo /\ [][NextDemo]_vars

\* The demo under a fair host: a timer that is due fires and the uptime
\* moves on.  The script is started, and status notifications arrive, in
\* the first DemoEventHorizon seconds of uptime, and the uptime is followed for long
\* enough after it to send a full queue, one message per interval.
DemoEventHorizon == DemoInterval + 2
DemoLiveMaxUptime == DemoEventHorizon + (demoMaxSize + 1) * DemoInterval

NextDemoLive ==
  \/ (demo.uptime <= DemoEventHorizon /\ DemoStart)
  \/ (demo.uptime <= DemoEventHorizon /\ DemoStatus(DemoNotifications))
  \/ DemoTimer
  \/ DemoSecondTo(DemoLiveMaxUptime)

SpecDemoLive ==
  /\ InitDemo /\ [][NextDemoLive]_vars
  /\ WF_vars(DemoTimer)
  /\ WF_vars(DemoSecondTo(DemoLiveMaxUptime))

-----------------------------------------------------------------------------
(* The state machine of the poll loop snippet *)

\* the other scripts take no step in these behaviours
InitPoll ==
  /\ LoadshedInit
  /\ switchPriority = <<2, 0, 1>>
  /\ host.uptime = 0
  /\ underpower = UnderpowerStart(0, 0)
  /\ demo = DemoLoaded(0)
  /\ poll = PollLoaded
  /\ health = HealthLoaded("part_003")

\* the top level of the snippet calls pollGetConfig()
PollStart ==
  /\ ~poll.started
  /\ poll' = pollGetConfig([poll EXCEPT !.started = TRUE])
  /\ UNCHANGED <<loadshedVars, underpower, demo, health>>

\* the pending one-shot timer fires: pollGetConfig()
PollFires ==
  /\ poll.timers > 0
  /\ poll.clock >= poll.timerDue
  /\ poll' = pollGetConfig([poll EXCEPT !.timers = @ - 1])
  /\ UNCHANGED <<loadshedVars, underpower, demo, health>>

\* the Shelly.GetConfig call completes, at any time after it was made
PollCallback ==
  /\ poll.callPending
  /\ poll' = pollCallbackGetConfig(poll)
  /\ UNCHANGED <<loadshedVars, underpower, demo, health>>

\* a millisecond passes, once a timer that is due has fired
PollClock ==
  /\ poll.started
  /\ poll.clock < MaxPollClock
  /\ ~(poll.timers > 0 /\ poll.clock >= poll.timerDue)
  /\ poll' = [poll EXCEPT !.clock = @ + 1]
  /\ UNCHANGED <<loadshedVars, underpower, demo, health>>

NextPoll ==
  \/ PollStart
  \/ PollFires
  \/ PollCallback
  \/ PollClock

\* the host runs the top level, fires a timer that is due, and its clock
\* moves on; the callback may never arrive
SpecPoll ==
  /\ InitPoll /\ [][NextPoll]_vars
  /\ WF_vars(PollStart)
  /\ WF_vars(PollFires)
  /\ WF_vars(PollClock)

-----------------------------------------------------------------------------
(* The state machine of the health check *)

\* either version of the script, with no state file yet
InitHealth ==
  /\ LoadshedInit
  /\ switchPriority = <<2, 0, 1>>
  /\ host.uptime = 0
  /\ underpower = UnderpowerStart(0, 0)
  /\ demo = DemoLoaded(0)
  /\ poll = PollLoaded
  /\ health \in {HealthLoaded(script) : script \in HealthScripts}

\* what the device can answer
HealthReplies ==
  {NoReply} \cup [uptime : 0 .. MaxHealthUptime, temperature : {MAXTEMP, MAXTEMP + 1}]

\* one run of the health check (by cron, say)
HealthRun(replies) ==
  /\ health.runs < MaxHealthRuns
  /\ \E reply \in replies : health' = healthRun(health, reply)
  /\ UNCHANGED <<loadshedVars, underpower, demo, poll>>

NextHealth == HealthRun(HealthReplies)

SpecHealth == InitHealth /\ [][NextHealth]_vars

-----------------------------------------------------------------------------
(* Vocabulary of the properties *)

Primary == switchPriority[1]
PriorityChannels == {switchPriority[p] : p \in 1 .. Len(switchPriority)}
Secondaries == PriorityChannels \ {Primary}
OnSecondaries == {c \in Secondaries : loadState.output[c] = "true"}

\* position of a channel in the priority order
Position(c) == CHOOSE p \in 1 .. Len(switchPriority) : switchPriority[p] = c

\* the last callback was the status handler, and it got past its filters
Evaluated == obs.op = "updateStatus" /\ obs.total # undefined

\* sum of the stored currents of a set of channels (0 for an undefined one)
RECURSIVE SumOver(_)
SumOver(S) ==
  IF S = {} THEN 0
  ELSE LET c == CHOOSE x \in S : TRUE
           v == IF loadState.current[c] = undefined THEN 0 ELSE loadState.current[c]
       IN v + SumOver(S \ {c})

PrioritySum == SumOver(PriorityChannels)
StoredSum == SumOver(SwitchIds)

\* the channels commanded off by the last callback, in command order
Commanded == [k \in 1 .. Len(obs.cmds) |-> obs.cmds[k].id]
CommandedSet == {obs.cmds[k].id : k \in 1 .. Len(obs.cmds)}

\* the shed notification the last pass should produce
ShedMessageOf(ids) == Message(ShedText, [k \in 1 .. Len(ids) |-> <<ids[k], loadState.current[ids[k]]>>])

-----------------------------------------------------------------------------
(* C1: a shed pass never commands the first entry of the priority order off *)
(* and never puts it in the shed list, even when the projected total is     *)
(* still above currentMax after every secondary channel has been shed.      *)
C1_PrimaryNeverShed ==
  /\ \A k \in 1 .. Len(obs.cmds) : obs.cmds[k].id # Primary
  /\ \A k \in 1 .. Len(obs.hitlist) : obs.hitlist[k] # Primary

\* a pass that shed every secondary and is still projected above the limit
C1_Witness ==
  /\ Evaluated /\ obs.shedRan
  /\ Len(switchPriority) = 3
  /\ CommandedSet = Secondaries
  /\ loadState.output[Primary] = "true"
  /\ obs.projected > currentMax

(* C2 (as stated): after a processed event whose priority-order aggregate   *)
(* exceeds currentMax, either the projected total (aggregate minus the      *)
(* stored current of every channel commanded off) is at or below currentMax,*)
(* or every secondary channel stored as on was commanded off.               *)
C2_ShedUntilUnderOrExhausted ==
  (Evaluated /\ PrioritySum > currentMax)
    => \/ PrioritySum - SumOver(CommandedSet) <= currentMax
       \/ OnSecondaries \subseteq CommandedSet

(* C3 (as stated): within one pass no channel is commanded off once the     *)
(* running projected total is at or below currentMax, a total exactly equal *)
(* to currentMax included: every command is issued at a running total       *)
(* strictly above currentMax.                                               *)
C3_StopsAtOrBelowMax ==
  obs.shedRan =>
    \A k \in 1 .. Len(obs.cmds) :
      obs.total - SumOver({obs.cmds[j].id : j \in 1 .. (k - 1)}) > currentMax

\* the running projected total before the k-th command of the last pass
RunningTotal(k) == obs.total - SumOver({obs.cmds[j].id : j \in 1 .. (k - 1)})

(* C3 (amended): within one pass no channel is commanded off once the       *)
(* running projected total is strictly below currentMax; a total exactly    *)
(* equal to currentMax does not stop the pass, which then goes on to the    *)
(* next on secondary channel until the total is below currentMax or the     *)
(* secondaries are exhausted.                                               *)
C3_StopsBelowMax ==
  obs.shedRan =>
    /\ \A k \in 1 .. Len(obs.cmds) : RunningTotal(k) >= currentMax
    /\ obs.projected >= currentMax => OnSecondaries \subseteq CommandedSet

\* a pass that reached exactly currentMax and went on to shed another channel
C3_Witness ==
  /\ Evaluated /\ obs.shedRan
  /\ \E k \in 2 .. Len(obs.cmds) : RunningTotal(k) = currentMax
  /\ obs.projected < currentMax

(* C4: an event processed while the aggregate of the stored currents is at  *)
(* or below currentMax issues no Switch.Set command and queues no shed      *)
(* notification.                                                            *)
C4_NoShedAtOrBelowMax ==
  (obs.op = "updateStatus" /\ StoredSum <= currentMax)
    => /\ obs.cmds = <<>>
       /\ OfKind(obs.notified, ShedText) = <<>>
       /\ ~obs.shedRan

\* the aggregate is exactly currentMax, a secondary is on, and nothing is shed
C4_Witness ==
  /\ Evaluated
  /\ StoredSum = currentMax
  /\ obs.total = currentMax
  /\ OnSecondaries # {}
  /\ obs.cmds = <<>>

(* C5: the channels commanded off in one pass are commanded in strictly     *)
(* reverse priority order, each at most once, and only channels stored as   *)
(* on; a secondary stored as off is skipped: no command, no change of the   *)
(* projected total, no entry in the shed list.                              *)
C5_ReversePriorityOnlyOn ==
  obs.op = "updateStatus" =>
    /\ \A k \in 1 .. Len(obs.cmds) :
         /\ obs.cmds[k].id \in Secondaries
         /\ loadState.output[obs.cmds[k].id] = "true"
    /\ \A j, k \in 1 .. Len(obs.cmds) :
         j < k => Position(obs.cmds[j].id) > Position(obs.cmds[k].id)
    /\ obs.hitlist = Commanded
    /\ obs.shedRan => obs.projected = obs.total - SumOver(CommandedSet)

\* a pass that skipped the lowest-priority channel (stored off, drawing
\* current) and shed the next one
C5_Witness ==
  /\ Evaluated /\ obs.shedRan
  /\ Len(switchPriority) = 3
  /\ loadState.output[switchPriority[3]] = "false"
  /\ loadState.current[switchPriority[3]] > 0
  /\ Commanded = <<switchPriority[2]>>

(* C6 (as stated): every shed pass that commands at least one channel off   *)
(* puts exactly one message into the notify queue, naming every channel     *)
(* shed with its stored current; never one per channel, never none.         *)
C6_ExactlyOneMessageQueued ==
  (obs.op = "updateStatus" /\ Len(obs.cmds) > 0)
    => OfKind(obs.enq, ShedText) = <<ShedMessageOf(Commanded)>>

\* the duplicate key as the shed pass found it: the interlock notification
\* queued earlier in the same handler, else the key before the handler
KeyBeforeShed ==
  LET others == SelectSeq(obs.enq, LAMBDA m : m.kind # ShedText)
  IN IF others # <<>> THEN others[Len(others)] ELSE hist.prevLastMessage

(* C6 (amended): every shed pass that commands at least one channel off     *)
(* calls _notify exactly once, with a message naming every channel shed     *)
(* with its stored current; that message is queued exactly once, unless it  *)
(* is textually identical to the most recent non-suppressed notification,   *)
(* in which case the pass queues nothing.                                   *)
C6_OneAggregatedNotification ==
  (obs.op = "updateStatus" /\ Len(obs.cmds) > 0)
    => /\ OfKind(obs.notified, ShedText) = <<ShedMessageOf(Commanded)>>
       /\ OfKind(obs.enq, ShedText) =
            IF KeyBeforeShed = ShedMessageOf(Commanded)
            THEN <<>> ELSE <<ShedMessageOf(Commanded)>>

\* a pass that shed two channels and queued the one message naming both
C6_Witness ==
  /\ Evaluated
  /\ Len(obs.cmds) = 2
  /\ OfKind(obs.enq, ShedText) = <<ShedMessageOf(Commanded)>>
  /\ Len(ShedMessageOf(Commanded).names) = 2

(* C7 (as stated): a 'multiple secondaries on' notification is queued only  *)
(* by an evaluation that counts more than one secondary on while the        *)
(* previous evaluation counted at most one; none is queued while the count  *)
(* stays above one.                                                         *)
C7_OnlyOnRisingEdge ==
  (Evaluated /\ OfKind(obs.enq, InterlockOnText) # <<>>)
    => /\ hist.count > 1
       /\ hist.prevCount <= 1

(* C8: a 'cleared' interlock notification is issued only by an evaluation   *)
(* in which at most one secondary channel is on and an 'on' notification    *)
(* has been issued since the last 'cleared' one; so no second 'cleared' is  *)
(* issued until another 'on' notification has occurred.                     *)
C8_ClearedOnlyAfterOn ==
  (obs.op = "updateStatus" /\ OfKind(obs.notified, InterlockClearedText) # <<>>)
    => /\ Cardinality(OnSecondaries) <= 1
       /\ hist.prevOnOutstanding
       /\ ~hist.onOutstanding
       /\ Len(OfKind(obs.notified, InterlockClearedText)) = 1
       /\ OfKind(obs.enq, InterlockClearedText) = OfKind(obs.notified, InterlockClearedText)

\* an evaluation that queued 'cleared' after an earlier 'on'
C8_Witness ==
  /\ Evaluated
  /\ OfKind(obs.enq, InterlockClearedText) # <<>>
  /\ hist.prevCount > 1
  /\ hist.count <= 1

(* C9 (as stated): for every sequence of events, events for channels not    *)
(* in the priority order included, the store holds no entry for a channel   *)
(* outside the priority order.                                              *)
C9_NoEntryOutsidePriority ==
  \A i \in SwitchIds \ PriorityChannels :
    /\ loadState.current[i] = undefined
    /\ loadState.output[i] = "undefined"

(* C10: synchronization runs once, before the status handler is registered: *)
(* whenever an event can be processed, every channel of the priority order  *)
(* has a defined output and a defined current in the store, and this stays  *)
(* true after any sequence of events.                                       *)
C10_SyncedBeforeEvents ==
  /\ host.inits <= 1
  /\ hist.events > 0 => host.statusHandlers > 0
  /\ host.statusHandlers > 0 =>
       /\ host.inits = 1
       /\ \A c \in PriorityChannels :
            /\ loadState.current[c] # undefined
            /\ loadState.output[c] # "undefined"

\* a second event has been processed after startup
C10_Witness ==
  /\ Evaluated
  /\ hist.events >= 2
  /\ host.inits = 1

(* C11 (as stated): for every priority order, orders that omit switch ids   *)
(* included, the aggregate compared against currentMax is the sum of the    *)
(* stored currents of exactly the priority-order channels.                  *)
C11_AggregateOfPriorityChannels ==
  Evaluated => obs.total = PrioritySum

\* the names of a message, as the set of channels it names
NamedIn(msgs) ==
  UNION { {msgs[k].names[j][1] : j \in 1 .. Len(msgs[k].names)} : k \in 1 .. Len(msgs) }

(* C12 (as stated): the interlock count of an evaluation is the number of   *)
(* priority-order entries other than the first whose stored output is on;   *)
(* a channel outside the priority order is never counted and never named    *)
(* in an interlock notification.                                            *)
C12_CountsPrioritySecondaries ==
  Evaluated =>
    /\ {obs.switchesOn[k] : k \in 1 .. Len(obs.switchesOn)} = OnSecondaries
    /\ Len(obs.switchesOn) = Cardinality(OnSecondaries)
    /\ NamedIn(OfKind(obs.notified, InterlockOnText)
               \o OfKind(obs.notified, InterlockClearedText)) \subseteq PriorityChannels

\* the globals after the status handler has processed e in the current state,
\* and after it has processed e a second time in immediate succession
Once(e) == updateStatus([Globals EXCEPT !.obs = Blank("updateStatus")], e, host.uptime)
Twice(e) == updateStatus([Once(e) EXCEPT !.obs = Blank("updateStatus")], e, host.uptime)

(* C13: for every store state and every event e, processing e twice in      *)
(* immediate succession leaves every stored output and current equal to     *)
(* the store after processing e once.                                       *)
C13_StoreIdempotent ==
  host.statusHandlers > 0 =>
    \A e \in AllNotifications :
      LET once == Once(e)
          twice == updateStatus([once EXCEPT !.obs = Blank("updateStatus")], e, host.uptime)
      IN twice.loadState = once.loadState

\* a store reached through an event, on which some event changes both the
\* output and the current of a channel, and changes nothing when repeated
C13_Witness ==
  /\ Evaluated
  /\ \E e \in AllNotifications :
       /\ Once(e).loadState.output # loadState.output
       /\ Once(e).loadState.current # loadState.current
       /\ Twice(e).loadState = Once(e).loadState

(* C14 (as stated): processing an identical event a second time immediately *)
(* after the first issues no additional channel-off command, enqueues no    *)
(* additional notification and emits no additional anomaly diagnostic.      *)
C14_NoDuplicateSideEffects ==
  host.statusHandlers > 0 =>
    \A e \in FewNotifications :
      /\ Twice(e).obs.cmds = <<>>
      /\ Twice(e).obs.enq = <<>>
      /\ ~Twice(e).obs.warn

\* _notify(m) called in the current state
NotifyOf(m) == notify([Globals EXCEPT !.obs = Blank("_notify")], m, host.uptime)

\* messages _notify is tried with, besides the most recent one
TestMessages ==
  {Message(StartText, <<>>),
   Message(ShedText, <<<<1, 40>>>>),
   Message(InterlockOnText, <<<<0, 160>>, <<1, 40>>>>)}

\* the messages of a sequence of _notify calls that are not suppressed,
\* `key` being the most recent non-suppressed message before them
RECURSIVE NotSuppressed(_, _)
NotSuppressed(msgs, key) ==
  IF msgs = <<>> THEN <<>>
  ELSE IF Head(msgs) = key THEN NotSuppressed(Tail(msgs), key)
  ELSE <<Head(msgs)>> \o NotSuppressed(Tail(msgs), Head(msgs))

(* C15: _notify(m) leaves the notify queue, the last-send time and the      *)
(* countdown unchanged when m is textually identical to the message of the  *)
(* most recent non-suppressed _notify call, whether that message is still   *)
(* queued, was already sent or was evicted; a message that differs from it  *)
(* is always appended (and the queue then served: at most its head is sent).*)
C15_DuplicateSuppressed ==
  host.inits > 0 =>
    /\ LET g == NotifyOf(lastNotificationMessage)
       IN /\ g.notifyQueue = notifyQueue
          /\ g.lastNotificationTime = lastNotificationTime
          /\ g.notificationIntervalCount = notificationIntervalCount
          /\ g.obs.enq = <<>> /\ g.obs.posted = <<>> /\ g.obs.evicted = <<>>
    /\ \A m \in TestMessages \ {lastNotificationMessage} :
         LET g == NotifyOf(m)
             kept == IF Len(notifyQueue) >= notifyMaxSize
                     THEN Tail(notifyQueue) ELSE notifyQueue
             appended == Append(kept, m)
         IN /\ g.obs.enq = <<m>>
            /\ g.lastNotificationMessage = m
            /\ \/ g.notifyQueue = appended /\ g.obs.posted = <<>>
               \/ g.notifyQueue = Tail(appended) /\ g.obs.posted = <<Head(appended)>>
    /\ (Evaluated \/ obs.op = "init")
         => obs.enq = NotSuppressed(obs.notified, hist.prevLastMessage)

\* the status handler repeated a notification whose first copy had already
\* been sent, and the repetition was suppressed
C15_Witness ==
  /\ Evaluated
  /\ obs.notified # <<>>
  /\ obs.enq = <<>>
  /\ \A k \in 1 .. Len(notifyQueue) : notifyQueue[k] # lastNotificationMessage

\* the number of entries of a queue equal to x
CountOf(queue, x) == Len(SelectSeq(queue, LAMBDA y : y = x))

\* _notify(m) on a full queue removes exactly the head, appends m at the
\* tail and keeps the order of the rest (the queue is then served, which can
\* only send the new head)
EvictsOldest(m) ==
  LET g == NotifyOf(m)
      appended == Append(Tail(notifyQueue), m)
  IN /\ g.obs.evicted = <<Head(notifyQueue)>>
     /\ g.obs.enq = <<m>>
     /\ \/ g.notifyQueue = appended
        \/ g.notifyQueue = Tail(appended) /\ g.obs.posted = <<Head(appended)>>

(* C16 (as stated): the notify queue never holds more than maxSize          *)
(* messages; an enqueue onto a full queue removes exactly the head, logs    *)
(* its loss, and appends the new message at the tail, the remaining entries *)
(* keeping their order.                                                     *)
C16_EvictsOldestAndLogsIt ==
  /\ Len(notifyQueue) <= notifyMaxSize
  /\ (host.inits > 0 /\ Len(notifyQueue) = notifyMaxSize) =>
       \A m \in TestMessages \ {lastNotificationMessage} :
         /\ EvictsOldest(m)
         /\ CountOf(NotifyOf(m).logQueue, "_notify overflow")
              = CountOf(logQueue, "_notify overflow") + 1

(* C16 (amended): the notify queue never holds more than maxSize messages;  *)
(* an enqueue onto a full queue removes exactly the head, appends the new   *)
(* message at the tail, the remaining entries keeping their order, and logs *)
(* the loss if the log queue has room: when the log queue is full too, the  *)
(* log entry of the loss is dropped.                                        *)
C16_EvictsOldest ==
  /\ Len(notifyQueue) <= notifyMaxSize
  /\ Len(logQueue) <= logMaxSize
  /\ obs.evicted # <<>> => Len(obs.evicted) <= Len(obs.enq)
  /\ (host.inits > 0 /\ Len(notifyQueue) = notifyMaxSize) =>
       \A m \in TestMessages \ {lastNotificationMessage} :
         /\ EvictsOldest(m)
         /\ IF Len(logQueue) < logMaxSize
            THEN CountOf(NotifyOf(m).logQueue, "_notify overflow")
                   = CountOf(logQueue, "_notify overflow") + 1
            ELSE /\ CountOf(NotifyOf(m).logQueue, "_notify overflow")
                      = CountOf(logQueue, "_notify overflow")
                 /\ NotifyOf(m).obs.lost >= 1

\* the status handler has just overflowed the queue, which is full again,
\* and the loss was logged
C16_Witness ==
  /\ Evaluated
  /\ obs.evicted # <<>>
  /\ Len(notifyQueue) = notifyMaxSize
  /\ CountOf(logQueue, "_notify overflow") > 0

\* _notifyWrite(byTimer) called in the current state
NotifyWriteOf(byTimer) ==
  notifyWrite([Globals EXCEPT !.obs = Blank("_notifyWrite")], byTimer, host.uptime)

\* the call sent exactly the head of the queue, now
SentHead(g) ==
  /\ g.obs.posted = <<Head(notifyQueue)>>
  /\ g.notifyQueue = Tail(notifyQueue)
  /\ g.lastNotificationTime = host.uptime

\* the call left the queue and the last-send time alone
SentNothing(g) ==
  /\ g.obs.posted = <<>>
  /\ g.notifyQueue = notifyQueue
  /\ g.lastNotificationTime = lastNotificationTime

(* C17: each _notifyWrite call delivers at most one message; a call not     *)
(* forced by the timer delivers a message only if the time since the last   *)
(* send exceeds the minimum interval, and otherwise leaves the queue and    *)
(* the last-send time unchanged; a forced call on a non-empty queue always  *)
(* delivers exactly the head message.                                       *)
C17_AtMostOnePerCall ==
  /\ Len(obs.posted) <= 1
  /\ host.inits > 0 =>
       /\ LET g == NotifyWriteOf(FALSE)
          IN IF host.uptime - lastNotificationTime > NotifyInterval /\ notifyQueue # <<>>
             THEN SentHead(g) ELSE SentNothing(g)
       /\ LET g == NotifyWriteOf(TRUE)
          IN IF notifyQueue # <<>> THEN SentHead(g) ELSE SentNothing(g)

\* the status handler queued a message exactly one interval after the last
\* send, and its unforced call sent nothing
C17_Witness ==
  /\ Evaluated
  /\ obs.enq # <<>>
  /\ obs.posted = <<>>
  /\ lastNotificationTime > 0
  /\ host.uptime - lastNotificationTime = NotifyInterval

\* _logWrite called in the current state
LogWriteOf == logWrite([Globals EXCEPT !.obs = Blank("_logWrite")], host.uptime)

(* C19: each tick (_logWrite) removes and prints exactly one message from   *)
(* the log queue when it is non-empty, and attempts a forced notify drain   *)
(* only on a tick at which the countdown has reached zero or below and the  *)
(* notify queue is non-empty; on every other tick the notify queue and the  *)
(* last-send time are unchanged.                                            *)
C19_TickDrainsOneLogEntry ==
  /\ obs.op = "_logWrite" => Len(obs.printed) <= 1 /\ Len(obs.posted) <= 1
  /\ host.logTimers > 0 =>
       LET g == LogWriteOf
       IN /\ IF logQueue # <<>>
             THEN /\ g.obs.printed = <<Head(logQueue)>>
                  /\ g.logQueue \in {Tail(logQueue), Append(Tail(logQueue), "postNotification")}
             ELSE /\ g.obs.printed = <<>>
                  /\ g.logQueue \in {<<>>, <<"postNotification">>}
          /\ IF notificationIntervalCount <= 0 /\ notifyQueue # <<>>
             THEN SentHead(g)
             ELSE /\ SentNothing(g)
                  /\ g.notificationIntervalCount = notificationIntervalCount - 1

\* a tick that printed a log entry and made the forced drain
C19_Witness ==
  /\ obs.op = "_logWrite"
  /\ Len(obs.printed) = 1
  /\ Len(obs.posted) = 1
  /\ lastNotificationTime = host.uptime

\* clamp(x, 0, interval), and the countdown it gives in ticks
Clamp(x) == IF x < 0 THEN 0 ELSE IF x > NotifyInterval THEN NotifyInterval ELSE x
CountdownFor(remaining) == Clamp(remaining) * TicksPerSecond

\* the last callback called _notifyWrite: _notify did on a message it did
\* not suppress, or the tick made its forced drain
NotifyWriteCalled == obs.enq # <<>> \/ (obs.op = "_logWrite" /\ obs.posted # <<>>)

(* C20: after every _notifyWrite call the countdown equals                  *)
(* clamp(remaining, 0, interval) * 1000 / tickPeriod, where remaining is    *)
(* the full interval if a message was just sent and interval - (now -       *)
(* lastSend) otherwise; so right after a drain attempt the countdown lies   *)
(* in [0, interval * 1000 / tickPeriod].                                    *)
C20_CountdownAfterDrain ==
  /\ host.inits > 0 =>
       \A byTimer \in BOOLEAN :
         LET g == NotifyWriteOf(byTimer)
             remaining == IF g.obs.posted # <<>> THEN NotifyInterval
                          ELSE NotifyInterval - (host.uptime - lastNotificationTime)
         IN /\ g.notificationIntervalCount = CountdownFor(remaining)
            /\ g.notificationIntervalCount \in 0 .. NotifyInterval * TicksPerSecond
            /\ g.currentTime = host.uptime
  /\ NotifyWriteCalled =>
       /\ currentTime = host.uptime
       /\ notificationIntervalCount
            = CountdownFor(IF obs.posted # <<>> THEN NotifyInterval
                           ELSE NotifyInterval - (currentTime - lastNotificationTime))

\* an unforced drain attempt made exactly when the interval had run out:
\* nothing is sent and the countdown is zero
C20_Witness ==
  /\ NotifyWriteCalled
  /\ obs.op = "updateStatus"
  /\ obs.posted = <<>>
  /\ currentTime - lastNotificationTime = NotifyInterval
  /\ notificationIntervalCount = 0

(* C18: under fair firing of the periodic tick neither queue is starved:    *)
(* every message that is in the log queue or in the notify queue is         *)
(* eventually delivered or evicted by overflow, for every interleaving of   *)
(* events and ticks.  (A message leaves a queue only by being printed,      *)
(* sent or evicted, and the queues are first-in first-out, so once the      *)
(* events have stopped every message has left when the queue is empty.)     *)
C18_NoStarvation ==
  /\ (notifyQueue # <<>>) ~> (obs.posted # <<>> \/ obs.evicted # <<>>)
  /\ (logQueue # <<>>) ~> (obs.printed # <<>>)
  /\ (notifyQueue # <<>>) ~> (notifyQueue = <<>>)
  /\ (logQueue # <<>>) ~> (logQueue = <<>>)

\* the forced drain of a tick has sent the last of the notifications that
\* two events had queued
C18_Witness ==
  /\ obs.op = "_logWrite"
  /\ obs.posted # <<>>
  /\ notifyQueue = <<>>
  /\ hist.events = MaxLiveEvents
  /\ host.uptime > LiveEventHorizon

-----------------------------------------------------------------------------
(* The log queue on overflow, the commands, the completions *)

\* _log applied to an entry in the current state
LogOf(entry) == log(Globals, entry)

(* C21 as stated: the log queue is a bounded first-in-first-out queue with  *)
(* drop-oldest overflow: a message logged while the queue is full displaces *)
(* the oldest entry and is queued itself.                                   *)
C21_DropsOldestWhenFull ==
  (logEnabled /\ Len(logQueue) = logMaxSize)
    => LogOf("entry").logQueue = Append(Tail(logQueue), "entry")

(* C21: the log queue is a bounded first-in-first-out queue that refuses    *)
(* the newest message on overflow: it never holds more than logMaxSize      *)
(* entries, a message logged while there is room is appended at the tail,   *)
(* and a message logged while the queue is full is dropped, the queued      *)
(* entries staying as they are.                                             *)
C21_RefusesNewestWhenFull ==
  /\ Len(logQueue) <= logMaxSize
  /\ logEnabled =>
       LET g == LogOf("entry")
       IN IF Len(logQueue) < logMaxSize
          THEN g.logQueue = Append(logQueue, "entry") /\ g.obs.lost = obs.lost
          ELSE g.logQueue = logQueue /\ g.obs.lost = obs.lost + 1

\* the status handler logged into a full queue and lost an entry
C21_Witness ==
  /\ obs.op = "updateStatus"
  /\ obs.lost > 0
  /\ Len(logQueue) = logMaxSize

(* C22: every command the script sends to the device turns a channel off;   *)
(* no callback of the script (status event, timer tick, completion, startup *)
(* step) issues a command that turns a channel on.                          *)
C22_EveryCommandTurnsOff ==
  \A k \in 1 .. Len(obs.cmds) : obs.cmds[k].on = FALSE

\* the status handler has commanded a channel that the store holds as on
C22_Witness ==
  /\ obs.op = "updateStatus"
  /\ obs.cmds # <<>>
  /\ \A k \in 1 .. Len(obs.cmds) : loadState.output[obs.cmds[k].id] = "true"

(* C26: a completion that reports an error only writes a console line: the  *)
(* load store, both queues, the duplicate-suppression key, the last-send    *)
(* time and the countdown are as they were, and no call is issued (neither  *)
(* the failed one again nor any other).                                     *)
C26_ErrorCallbackOnlyWritesConsole ==
  [][(obs'.op = "_callbackLogError" /\ obs'.completed = obs.completed + 1)
       => /\ UNCHANGED <<loadState, interlockNotificationPosted, logQueue, notifyQueue,
                         lastNotificationMessage, lastNotificationTime,
                         notificationIntervalCount, currentTime>>
          /\ obs'.cmds = obs.cmds
          /\ obs'.posted = obs.posted
          /\ obs'.enq = obs.enq
          /\ Len(obs'.console) <= Len(obs.console) + 1]_vars

\* the completion of a Switch.Set has reported an error while a
\* notification is still queued
C26_Witness ==
  /\ obs.op = "_callbackLogError"
  /\ obs.console # <<>>
  /\ obs.cmds # <<>>
  /\ notifyQueue # <<>>

-----------------------------------------------------------------------------
(* The merge of a status notification into the store *)

\* currents around the noise floor of _updateLoadStatePower
NoiseCurrents == {0, NoiseFloor, NoiseFloor + 1, 40}

\* a status notification of a switch that carries only a current
PowerDelta(id, current) ==
  [name |-> "switch", id |-> id, aenergy |-> FALSE, output |-> "undefined",
   current |-> current]

\* _updateLoadStatePower applied to such a notification in the current state
PowerOf(id, current) ==
  updateLoadStatePower([Globals EXCEPT !.obs = Blank("updateStatus")],
                       PowerDelta(id, current))

\* what _updateLoadStatePower leaves alone: every stored output, and the
\* stored current of every other channel
PowerFrame(g, id, current) ==
  /\ g.loadState.output = loadState.output
  /\ g.loadState.current = [loadState.current EXCEPT ![id] = current]

(* C23 as stated: a current above the noise floor ingested for a channel    *)
(* whose stored output is off emits the anomaly diagnostic (it is queued    *)
(* for the console) and changes only the stored current of the channel; no  *)
(* diagnostic is emitted when the stored output is on or the current is at  *)
(* most the noise floor.                                                    *)
C23_AnomalyEmitted ==
  logEnabled =>
    \A id \in SwitchIds : \A current \in NoiseCurrents :
      LET g == PowerOf(id, current)
      IN /\ PowerFrame(g, id, current)
         /\ IF current > NoiseFloor /\ loadState.output[id] = "false"
            THEN g.logQueue = Append(logQueue, "WARN output is off yet current")
            ELSE (loadState.output[id] = "true" \/ current <= NoiseFloor)
                   => (g.logQueue = logQueue /\ ~g.obs.warn)

(* C23: a current above the noise floor ingested for a channel whose stored *)
(* output is off raises the anomaly diagnostic through _log, which queues   *)
(* it for the console when the log queue has room and drops it when the log *)
(* queue is full; only the stored current of the channel changes.  No       *)
(* diagnostic is raised when the stored output is on or the current is at   *)
(* most the noise floor.                                                    *)
C23_AnomalyRaised ==
  logEnabled =>
    \A id \in SwitchIds : \A current \in NoiseCurrents :
      LET g == PowerOf(id, current)
      IN /\ PowerFrame(g, id, current)
         /\ IF current > NoiseFloor /\ loadState.output[id] = "false"
            THEN /\ g.obs.warn
                 /\ IF Len(logQueue) < logMaxSize
                    THEN g.logQueue = Append(logQueue, "WARN output is off yet current")
                    ELSE g.logQueue = logQueue /\ g.obs.lost = 1
            ELSE (loadState.output[id] = "true" \/ current <= NoiseFloor)
                   => (g.logQueue = logQueue /\ ~g.obs.warn)

\* the status handler has stored a current above the noise floor for a
\* channel that the store holds as off, and the diagnostic is queued
C23_Witness ==
  /\ obs.op = "updateStatus"
  /\ obs.warn
  /\ \E c \in SwitchIds :
       loadState.output[c] = "false" /\ loadState.current[c] > NoiseFloor
  /\ \E k \in 1 .. Len(logQueue) : logQueue[k] = "WARN output is off yet current"

(* C24: an event without an output delta leaves every stored output as it   *)
(* was, an event without a current delta leaves every stored current as it  *)
(* was, and an event for channel c changes neither the stored output nor    *)
(* the stored current of any other channel.                                 *)
C24_AbsentFieldsAndOtherChannelsKept ==
  host.statusHandlers > 0 =>
    \A e \in AllNotifications :
      LET once == Once(e)
      IN /\ e.output = "undefined" => once.loadState.output = loadState.output
         /\ e.current = undefined => once.loadState.current = loadState.current
         /\ \A c \in SwitchIds \ {e.id} :
              /\ once.loadState.output[c] = loadState.output[c]
              /\ once.loadState.current[c] = loadState.current[c]

\* the status handler has merged an event carrying a current and no output
\* for a channel the startup synchronization did not fill: its output is
\* still unknown
C24_Witness ==
  /\ obs.op = "updateStatus"
  /\ 1 \notin PriorityChannels
  /\ loadState.output[1] = "undefined"
  /\ loadState.current[1] = 40

\* the events of a channel, and the store after the handler has merged one
EventsOf(c) == {e \in AllNotifications : e.name = "switch" /\ ~e.aenergy /\ e.id = c}

\* e is merged as reported: the fields it carries are stored, the others kept,
\* and the handler went on to evaluate the store
MergedAsReported(g0, g, e) ==
  /\ g.loadState.output[e.id] =
       (IF e.output # "undefined" THEN e.output ELSE g0.loadState.output[e.id])
  /\ g.loadState.current[e.id] =
       (IF e.current # undefined THEN e.current ELSE g0.loadState.current[e.id])
  /\ g.obs.total # undefined

(* C25: after a shed pass has commanded channel c off, the next event for c *)
(* is merged whatever it reports (output on, output off, a new current):    *)
(* the store then holds exactly the reported values, and the handler        *)
(* evaluates the store as for any event.  The same holds for an event       *)
(* reporting c on after one that reported it off.                           *)
C25_LastWriteWinsAfterShed ==
  Evaluated =>
    \A c \in CommandedSet : \A e \in EventsOf(c) :
      LET once == Once(e)
      IN /\ MergedAsReported(Globals, once, e)
         /\ e.output = "false" =>
              \A e2 \in EventsOf(c) :
                MergedAsReported(
                  once,
                  updateStatus([once EXCEPT !.obs = Blank("updateStatus")], e2, host.uptime),
                  e2)

\* a channel has been commanded off, and an event reporting it on with a
\* new current is merged as reported
C25_Witness ==
  /\ Evaluated
  /\ \E c \in CommandedSet : \E e \in EventsOf(c) :
       /\ e.output = "true"
       /\ e.current # undefined
       /\ e.current # loadState.current[c]
       /\ Once(e).loadState.output[c] = "true"
       /\ Once(e).loadState.current[c] = e.current

-----------------------------------------------------------------------------
(* The underpower-off script *)

(* C27: a notification handler of underpower-off issues the switch-off      *)
(* command exactly when, after the notification is merged, the stored       *)
(* output is true (not 'waiting', false or null), the stored power is below *)
(* the threshold and currentTime minus the stored timer is at least the     *)
(* timeout; in every other case it issues no command.                       *)
C27_OffExactlyWhenIdleExpired ==
  underpower.obs.op = "statusHandler" =>
    IF /\ underpower.obs.merged = "true"
       /\ underpower.switchState.apower < threshold
       /\ underpower.currentTime - underpower.switchState.timer >= underpower.timeout
    THEN underpower.obs.cmds = <<[id |-> underpowerSwitchId, on |-> FALSE]>>
    ELSE underpower.obs.cmds = <<>>

\* the command is issued by the handler that runs exactly when a positive
\* timeout has elapsed
C27_Witness ==
  /\ underpower.obs.op = "statusHandler"
  /\ underpower.obs.cmds # <<>>
  /\ underpower.timeout > 0
  /\ underpower.currentTime - underpower.switchState.timer = underpower.timeout

\* notifications of the monitored switch that carry only a power reading,
\* or only an output
PowerOnly(apower) == [component |-> "switch:0", output |-> "undefined", apower |-> apower]
OutputOnly(output) == [component |-> "switch:0", output |-> output, apower |-> undefined]

\* the script after statusHandler has handled a notification in the current
\* state (the device answering a status query with its output on, idle)
HandledOf(notifyStatus) ==
  statusHandler([underpower EXCEPT !.obs = UnderpowerBlank("statusHandler")],
                notifyStatus, [output |-> "true", apower |-> 0])

(* C28 as stated: after an off-to-on output transition the stored output is *)
(* 'waiting', and the first power notification handled while it is          *)
(* 'waiting', whatever its value, ends the waiting state: the stored output *)
(* becomes true.                                                            *)
C28_FirstPowerEndsWaiting ==
  /\ underpower.switchState.output \in {"false", "null"}
       => HandledOf(OutputOnly("true")).switchState.output = "waiting"
  /\ underpower.switchState.output = "waiting"
       => \A apower \in Powers :
            HandledOf(PowerOnly(apower)).switchState.output = "true"

(* C29: _getSwitchState is invoked at most once over any sequence of        *)
(* notifications, and once the stored output has left its initial null it   *)
(* is one of true, false, 'waiting' for ever.                               *)
C29_QueriedOnceNeverNullAgain ==
  /\ [](underpower.queries <= 1)
  /\ [][underpower.switchState.output # "null"
         => underpower'.switchState.output \in {"true", "false", "waiting"}]_vars

\* the first handler queried the device, and a later one found the stored
\* output set and did not
C29_Witness ==
  /\ underpower.obs.op = "statusHandler"
  /\ underpower.obs.handled
  /\ ~underpower.obs.queried
  /\ underpower.queries = 1
  /\ underpower.accepted >= 2

-----------------------------------------------------------------------------
(* The notification demo *)

\* _notify of the demo applied to a message in the current state
DemoNotifyOf(message) == demoNotify([demo EXCEPT !.obs = DemoBlank("_notify")], message)

\* the rate limit of the demo is not hit: more than the interval has passed
\* since the last message was sent
DemoRateLimitNotHit == DemoInterval - (demo.uptime - demo.lastMessageTime) < 0

\* the queue entry of the i-th message of the burst of init()
BurstEntry(i) == [message |-> <<"start", i>>, seq |-> i]

(* C30: in the notification demo a repeated identical message is ignored;   *)
(* the first message queued into an empty queue while the rate limit is not *)
(* hit is posted within that _notify call; the next maxSize distinct        *)
(* messages are all queued without loss; overflow, which evicts the oldest  *)
(* queued message, starts only with the message after them, and the queue   *)
(* never holds more than maxSize messages.                                  *)
C30_BurstQueuedThenOverflow ==
  /\ Len(demo.queue) <= demoMaxSize
  /\ demo.started =>
     LET same == DemoNotifyOf(demo.lastMessage)
         new == DemoNotifyOf(<<"probe">>)
         entry == [message |-> <<"probe">>, seq |-> demo.sequenceNumber]
     IN /\ same.obs.ignored = <<demo.lastMessage>>
        /\ [same EXCEPT !.obs = demo.obs] = demo
        /\ (demo.queue = <<>> /\ DemoRateLimitNotHit)
             => (new.obs.flushed = <<entry>> /\ new.obs.posted = <<entry>> /\ new.queue = <<>>)
        /\ IF Len(demo.queue) < demoMaxSize
           THEN new.obs.evicted = <<>>
           ELSE new.obs.evicted = <<Head(demo.queue)>> /\ new.queue = Append(Tail(demo.queue), entry)
  /\ (demo.obs.op = "init" /\ demo.obs.flushed # <<>>)
       => /\ demo.obs.ignored = << <<"script start">> >>
          /\ demo.obs.posted = <<[message |-> <<"script start">>, seq |-> 0]>>
          /\ demo.obs.flushed = demo.obs.posted
          /\ demo.obs.evictedAt = <<demoMaxSize + 2>>
          /\ demo.obs.evicted = <<BurstEntry(1)>>
          /\ demo.queue = [k \in 1 .. demoMaxSize |-> BurstEntry(k + 1)]

\* init() has run while the rate limit was not hit: its first message was
\* sent at once, the queue is full and one message has been evicted
C30_Witness ==
  /\ demo.obs.op = "init"
  /\ demo.obs.flushed # <<>>
  /\ demo.obs.evicted # <<>>
  /\ Len(demo.queue) = demoMaxSize

-----------------------------------------------------------------------------
(* The shed pass and the store *)

\* _shedLoad applied to the store of the current state
ShedOf ==
  shedLoad([Globals EXCEPT !.obs = Blank("updateStatus")], sumCurrents(loadState),
           host.uptime)

\* the store after the two merges of updateStatus alone
MergeOf(e) ==
  LET g0 == [Globals EXCEPT !.obs = Blank("updateStatus")]
  IN updateLoadStatePower(updateLoadStateOutput(g0, e), e).loadState

(* C33: a shed pass leaves the store unchanged: the stored output and       *)
(* current of every channel, the channels just commanded off included, are  *)
(* what they were before the pass.  The status handler changes the store by *)
(* the merge of its event and nothing else, and the timer callback does not *)
(* change it.                                                               *)
C33_ShedLeavesStore ==
  /\ ShedOf.loadState = loadState
  /\ LogWriteOf.loadState = loadState
  /\ host.statusHandlers > 0 =>
       \A e \in AllNotifications : Once(e).loadState = MergeOf(e)

\* a shed pass has commanded two channels, and the store still holds both
\* as on with their currents
C33_Witness ==
  /\ Evaluated
  /\ obs.shedRan
  /\ Len(obs.cmds) = 2
  /\ \A k \in 1 .. 2 :
       /\ loadState.output[obs.cmds[k].id] = "true"
       /\ loadState.current[obs.cmds[k].id] > 0

\* the switch events the handler processes
SwitchEvents == {e \in AllNotifications : e.name = "switch" /\ ~e.aenergy}

\* the channels a handler commanded off
CommandedIn(g) == {g.obs.cmds[k].id : k \in 1 .. Len(g.obs.cmds)}

\* after the merge of its event the handler found channel c stored as on and
\* the aggregate above currentMax
StillOver(g, c) == g.loadState.output[c] = "true" /\ JsGt(g.obs.total, currentMax)

(* C34 as stated: when a shed pass has commanded channel c off and the      *)
(* store still shows c on with the aggregate above currentMax, the next     *)
(* processed switch event, of any channel and any content that leaves this  *)
(* so, issues the off-command to c again.                                   *)
C34_RecommandedOnNextEvent ==
  Evaluated =>
    \A c \in CommandedSet : \A e \in SwitchEvents :
      LET once == Once(e)
      IN StillOver(once, c) => c \in CommandedIn(once)

(* C34: when a shed pass has commanded channel c off and, after the next    *)
(* processed switch event has been merged, the store still shows c on and   *)
(* the aggregate is above currentMax, the pass of that event issues the     *)
(* off-command to c again, unless it stops before it reaches c: it has      *)
(* brought the running total below currentMax by commanding only channels   *)
(* of lower priority than c.                                                *)
C34_RecommandedUnlessStoppedBefore ==
  Evaluated =>
    \A c \in CommandedSet : \A e \in SwitchEvents :
      LET once == Once(e)
      IN StillOver(once, c) =>
           \/ c \in CommandedIn(once)
           \/ /\ JsLt(once.obs.projected, currentMax)
              /\ CommandedIn(once) # {}
              /\ \A d \in CommandedIn(once) : Position(d) > Position(c)

\* a channel has been commanded off and is still stored as on; an event of
\* another channel that leaves the aggregate above the limit commands it again
C34_Witness ==
  /\ Evaluated
  /\ \E c \in CommandedSet : \E e \in SwitchEvents :
       /\ e.id # c
       /\ StillOver(Once(e), c)
       /\ c \in CommandedIn(Once(e))

-----------------------------------------------------------------------------
(* The bootstrap *)

(* C40: in the bootstrap init() runs exactly once, and only after the       *)
(* GetConfig callback has fired; so the tick timer is armed at most once,   *)
(* the status handler is registered exactly once, and no event is processed *)
(* before init() has synchronized the store.                                *)
C40_InitOnceAfterConfig ==
  /\ [](/\ host.inits <= 1
        /\ host.logTimers <= 1
        /\ host.statusHandlers = host.inits
        /\ host.inits > 0 => (gotDeviceConfig /\ ~host.pollTimer)
        /\ hist.events > 0 => host.inits = 1)
  /\ <>(host.inits = 1)

\* init() has run once, after the callback, and an event has been processed
C40_Witness ==
  /\ host.inits = 1
  /\ host.statusHandlers = 1
  /\ host.logTimers = 1
  /\ gotDeviceConfig
  /\ hist.events = MaxBootEvents

\* C35: any two consecutive posts differ by at least the interval less one
\* second in the uptime recorded for them, whether the later one was sent by
\* an enqueue or forced by the timer.  lastNotificationTime is the uptime
\* recorded for the previous post; every step of SpecPace that posts is
\* compared with it.
C35_PostsSpaced ==
  [][obs'.posted # <<>> =>
       lastNotificationTime' - lastNotificationTime >= notifyInterval - 1]_vars

\* a post forced by the timer, of a notification queued after 'script
\* start', at least one interval after the uptime of the start
C35_Witness ==
  /\ obs.op = "_logWrite"
  /\ obs.posted # <<>>
  /\ obs.posted[1].kind # StartText
  /\ notifyInterval = PaceInterval
  /\ lastNotificationTime = host.uptime
  /\ host.uptime >= 2 * PaceInterval

\* C36: notifications are posted in enqueue order.  In every step, the
\* queue before it followed by the messages the step enqueued splits into
\* the messages that left the queue and the queue after the step; the
\* messages posted are, in order, among those that left (the others were
\* evicted), so what is posted over time is a subsequence of what was
\* enqueued.  A send triggered by an enqueue onto a non-empty queue posts the
\* message at the head of the queue, not the one just enqueued.
C36_PostedInEnqueueOrder ==
  [][LET all == notifyQueue \o obs'.enq
         left == Len(all) - Len(notifyQueue')
         gone == SubSeq(all, 1, left)
         posted == obs'.posted
     IN /\ left >= 0
        /\ notifyQueue' = SubSeq(all, left + 1, Len(all))
        /\ left = Len(posted) + Len(obs'.evicted)
        /\ \E f \in [1 .. Len(posted) -> 1 .. left] :
              /\ \A i \in 1 .. Len(posted) : gone[f[i]] = posted[i]
              /\ \A i, j \in 1 .. Len(posted) : i < j => f[i] < f[j]
        /\ (obs'.enq # <<>> /\ posted # <<>> /\ obs'.evicted = <<>> /\ notifyQueue # <<>>)
             => posted = <<Head(notifyQueue)>>]_vars

\* a status notification has enqueued a message behind an older one and its
\* send has posted the older one; the new message is still queued
C36_Witness ==
  /\ obs.op = "updateStatus"
  /\ obs.enq # <<>>
  /\ Len(obs.posted) = 1
  /\ obs.posted[1] # obs.enq[Len(obs.enq)]
  /\ notifyQueue # <<>>
  /\ notifyQueue[Len(notifyQueue)] = obs.enq[Len(obs.enq)]

\* C37: with CONFIG.log false no log timer is ever armed, and the notify
\* queue is drained only by a _notify call that is not suppressed as a
\* duplicate and is made more than the interval after the last post: a step
\* that posts has enqueued a message and found the last post more than the
\* interval back, and a step that enqueues nothing leaves the queue as it is.
C37_DrainedOnlyByLateNotify ==
  [][/\ host'.logTimers = 0
     /\ obs'.posted # <<>> =>
          /\ obs'.op \in {"init", "updateStatus"}
          /\ obs'.enq # <<>>
          /\ host.uptime - lastNotificationTime > notifyInterval
          /\ Len(obs'.posted) = 1
     /\ obs'.enq = <<>> => (notifyQueue' = notifyQueue /\ obs'.posted = <<>>)
     /\ Len(notifyQueue') < Len(notifyQueue) => obs'.posted # <<>>]_vars

\* 'script start' was left in the queue at startup and a later status
\* notification has posted it, leaving its own message queued
C37_Witness ==
  /\ ~logEnabled
  /\ host.logTimers = 0
  /\ obs.op = "updateStatus"
  /\ Len(obs.posted) = 1
  /\ obs.posted[1].kind = StartText
  /\ notifyQueue # <<>>

\* C38: in the notification demo, after every handler at most one timer is
\* pending, a timer is pending exactly when the queue is not empty, and
\* _timerHandle is non-null exactly when a timer is pending; and every
\* queued message eventually leaves the queue (it is posted or evicted).
\* Finitely many messages are queued in a behaviour, so every one of them
\* leaves exactly if a queue that is not empty always becomes empty.
C38_TimerIffQueued ==
  /\ [](/\ demo.timers <= 1
        /\ demo.timerArmed <=> demo.timers > 0
        /\ demo.timers > 0 <=> demo.queue # <<>>
        /\ demo.timerHandle # "null" <=> demo.timers > 0)
  /\ (demo.queue # <<>>) ~> (demo.queue = <<>>)

\* the timer has fired with more than one message queued: it has posted the
\* oldest and armed the next timer for the rest
C38_Witness ==
  /\ demo.obs.op = "_notifyWrite"
  /\ Len(demo.obs.posted) = 1
  /\ demo.queue # <<>>
  /\ demo.timers = 1
  /\ demo.timerHandle = "handle"
  /\ demo.timerDue = demo.uptime + DemoInterval

\* _updateSwitchPower applied in the current state to a notification that
\* carries the power reading apower
PowerUpdateOf(apower) == updateSwitchPower(underpower, PowerOnly(apower))

\* C39 as stated: in underpower-off a power notification changes the stored
\* output only from 'waiting' to true; a stored output of false or null is
\* never turned into true by it.
C39_PowerOnlyEndsWaiting ==
  \A apower \in Powers :
    PowerUpdateOf(apower).switchState.output # underpower.switchState.output
      => /\ underpower.switchState.output = "waiting"
         /\ PowerUpdateOf(apower).switchState.output = "true"

-----------------------------------------------------------------------------
(* The poll loop snippet and the health check *)

\* C31: pollGetConfig leads to exactly one call of init().  init() is never
\* called twice, and no timer is pending once it has been called; a poll
\* calls init() exactly if it finds the counter negative (the callback has
\* arrived) or above 10 (it gives up), and arms no timer then; and init() is
\* eventually called, whenever the callback arrives and if it never does.
C31_PollLeadsToOneInit ==
  /\ [](/\ poll.inits <= 1
        /\ poll.timers <= 1
        /\ poll.calls <= 1
        /\ poll.inits > 0 => poll.timers = 0)
  /\ [][poll'.polls > poll.polls =>
         /\ (poll.pollCounter < 0 \/ poll.pollCounter > pollGiveUp)
              <=> poll'.inits = poll.inits + 1
         /\ poll'.inits = poll.inits + 1 => poll'.timers = 0
         /\ poll'.state = "GIVEUP" => poll.pollCounter = pollGiveUp + 1]_vars
  /\ <>(poll.inits = 1)

\* the loop has given up and called init() without a configuration; the
\* callback has arrived afterwards
C31_Witness ==
  /\ poll.state = "GIVEUP"
  /\ poll.inits = 1
  /\ poll.polls = pollGiveUp + 2
  /\ poll.timers = 0
  /\ poll.deviceConfig = "config"
  /\ poll.pollCounter = -1

\* n has the form 2^k - 1: 1, 3, 7, 15, ...
HasFormTwoToTheNLessOne(n) == \E k \in 1 .. MaxHealthRuns : n = 2 ^ k - 1

\* what every run of the health check does to the state file: errcount is
\* the number of consecutive failed runs, and it is reset, and the stored
\* uptime changed, only by a successful run
HealthCountsFailures ==
  /\ health'.file.exists
  /\ health'.file.errcount = health'.failures
  /\ health'.rc = 0 <=> health'.file.errcount = 0
  /\ health'.rc # 0 => health'.file.uptime = health.file.uptime
  /\ health'.rc # 0 => health'.file.errcount = health.file.errcount + 1

\* C32 as stated: across consecutive runs that share a state file, errcount
\* is the number of consecutive failed runs since the last successful one,
\* and a failed run sends a notification exactly when the incremented
\* errcount has the form 2^n - 1.
C32_NotifiedAtTwoToTheNLessOne ==
  [][health'.runs > health.runs =>
       /\ HealthCountsFailures
       /\ health'.notified <=>
            (health'.rc # 0 /\ HasFormTwoToTheNLessOne(health'.file.errcount))]_vars

\* C32, amended: errcount is the number of consecutive failed runs since the
\* last successful one; the script of part_003 sends a notification exactly
\* on the first failed run of a sequence (errcount 1), the script of
\* pingshelly.sh exactly when errcount has the form 2^n - 1.
C32_NotifiedPerVersion ==
  [][health'.runs > health.runs =>
       /\ HealthCountsFailures
       /\ health'.notified <=>
            (/\ health'.rc # 0
             /\ IF health.script = "part_003"
                THEN health'.file.errcount = 1
                ELSE HasFormTwoToTheNLessOne(health'.file.errcount))
       /\ health'.priority <=> (health'.notified /\ health'.rc >= 100)]_vars

\* the third failed run in a row of the script of part_003: no notification
C32_Witness ==
  /\ health.script = "part_003"
  /\ health.rc # 0
  /\ health.file.errcount = 3
  /\ health.failures = 3
  /\ ~health.notified

====
